---- MODULE Spec2Model ----
(***************************************************************************)
(* Version resolution engine and resolve-and-rewrite filters of automata.  *)
(*                                                                         *)
(* A Go string is a sequence of one-character strings.  A few runs of      *)
(* letters that the code never looks inside ("latest", "dev", "old",       *)
(* "release-") are kept as one element of the sequence.                    *)
(***************************************************************************)
EXTENDS Integers, Sequences, FiniteSets, TLC

VARIABLES
    baseline,   \* Compare: first argument
    target,     \* Compare: second argument
    opts,       \* Compare: the options struct after makeOptions
    verdict,    \* Compare: the (Comparison, error) pair returned, or NotCalled
    doc,        \* the document entry a filter works on
    source,     \* the candidates the external source enumerates, in its order
    excludes,   \* the configured exclusion set
    call,       \* the arguments of the last resolver call, or NoCall
    latest,     \* the (string, error) pair the last resolver call returned
    docs,       \* the document at the start and after each filter run
    failure,    \* the error the last filter run returned, or "NotRun"
    tasks,      \* the goroutines of the task groups: where each one is
    main,       \* the goroutine that started the groups: where it is, what it returned
    ctx,        \* the context the caller passed: "live" or "canceled"
    limiter     \* the tokens in the bucket of the rate limiter

cmpVars == <<baseline, target, opts, verdict>>

grpVars == <<tasks, main, ctx, limiter>>

runVars == <<doc, source, excludes, call, latest, docs, failure, tasks, main, ctx, limiter>>

vars == <<baseline, target, opts, verdict, doc, source, excludes, call, latest, docs, failure,
          tasks, main, ctx, limiter>>

\* No task group has been started.
GroupIdle ==
    /\ tasks = <<>>
    /\ main = [pc |-> "none"]
    /\ ctx = "live"
    /\ limiter = 0

-----------------------------------------------------------------------------
(* Bounds of the model.                                                    *)

\* Largest value of a minor or patch component, and of a small major.
MaxNum == 1

\* A major component with two digits, so that digit strings of different
\* lengths meet in a comparison.
WideMajor == 10

-----------------------------------------------------------------------------
(* Strings.                                                                *)

Digits == <<"0", "1", "2", "3", "4", "5", "6", "7", "8", "9">>

DigitSet == {Digits[i] : i \in 1..10}

IsDigit(c) == c \in DigitSet

\* Byte order of the characters the model uses (their ASCII codes; a run of
\* lower-case letters kept as one element sorts where its first letter does).
Ord(c) ==
    CASE c = "+" -> 43
      [] c = "-" -> 45
      [] c = "." -> 46
      [] c = "0" -> 48
      [] c = "1" -> 49
      [] c = "2" -> 50
      [] c = "3" -> 51
      [] c = "4" -> 52
      [] c = "5" -> 53
      [] c = "6" -> 54
      [] c = "7" -> 55
      [] c = "8" -> 56
      [] c = "9" -> 57
      [] c = "V" -> 86
      [] c = "a" -> 97
      [] c = "b" -> 98
      [] c = "dev" -> 100
      [] c = "latest" -> 108
      [] c = "old" -> 111
      [] c = "r" -> 114
      [] c = "release-" -> 114
      [] c = "v" -> 118
      [] OTHER -> 0

Empty == <<>>

\* s[from:] of Go, with from counted from 1 here.
Drop(s, n) == SubSeq(s, n + 1, Len(s))

Take(s, n) == SubSeq(s, 1, n)

HasPrefix(s, c) == Len(s) > 0 /\ s[1] = c

\* Go's x < y on strings: bytewise lexicographic order.
RECURSIVE StrLess(_, _)
StrLess(x, y) ==
    IF y = Empty THEN FALSE
    ELSE IF x = Empty THEN TRUE
    ELSE IF x[1] # y[1] THEN Ord(x[1]) < Ord(y[1])
    ELSE StrLess(Tail(x), Tail(y))

\* Length of the run of digits that s starts with.
RECURSIVE DigitRun(_)
DigitRun(s) ==
    IF s = Empty \/ ~IsDigit(s[1]) THEN 0 ELSE 1 + DigitRun(Tail(s))

\* Position of the first occurrence of c in s, or 0.
RECURSIVE IndexOf(_, _)
IndexOf(s, c) ==
    IF s = Empty THEN 0
    ELSE IF s[1] = c THEN 1
    ELSE LET r == IndexOf(Tail(s), c) IN IF r = 0 THEN 0 ELSE r + 1

\* strconv.Itoa for the naturals of the model.
RECURSIVE Itoa(_)
Itoa(n) == IF n < 10 THEN <<Digits[n + 1]>> ELSE Itoa(n \div 10) \o <<Digits[(n % 10) + 1]>>

-----------------------------------------------------------------------------
(* golang.org/x/mod/semver, as the updater package uses it.                *)

NotOk == [ok |-> FALSE]

\* parseInt: a run of digits with no leading zero.
ParseInt(v) ==
    LET Cut(n) == IF n = 0 THEN NotOk
                  ELSE IF v[1] = "0" /\ n # 1 THEN NotOk
                  ELSE [ok |-> TRUE, t |-> Take(v, n), rest |-> Drop(v, n)]
    IN  Cut(DigitRun(v))

IsIdentChar(c) == IsDigit(c) \/ c \in {"a", "b", "r", "V", "v", "dev", "old", "latest", "release-", "-"}

RECURSIVE AllDigits(_)
AllDigits(s) == s = Empty \/ (IsDigit(s[1]) /\ AllDigits(Tail(s)))

\* isBadNum: a numeric identifier with a leading zero.
IsBadNum(s) == Len(s) > 1 /\ AllDigits(s) /\ s[1] = "0"

\* The identifiers of a prerelease or build string (after its first
\* character), split at the dots; <<>> stands for an illegal character.
RECURSIVE Idents(_, _)
Idents(s, cur) ==
    IF s = Empty THEN <<cur>>
    ELSE IF s[1] = "." THEN <<cur>> \o Idents(Tail(s), Empty)
    ELSE Idents(Tail(s), Append(cur, s[1]))

RECURSIVE AllIdentChars(_)
AllIdentChars(s) == s = Empty \/ ((IsIdentChar(s[1]) \/ s[1] = ".") /\ AllIdentChars(Tail(s)))

\* parsePrerelease: "-" and dot-separated identifiers, up to a "+".
ParsePrerelease(v) ==
    LET End(p) == IF p = 0 THEN Len(v) ELSE p - 1
        BadIdents(ids) == \E i \in 1..Len(ids) : ids[i] = Empty \/ IsBadNum(ids[i])
        Cut(n, body) ==
            IF ~AllIdentChars(body) THEN NotOk
            ELSE IF BadIdents(Idents(body, Empty)) THEN NotOk
            ELSE [ok |-> TRUE, t |-> Take(v, n), rest |-> Drop(v, n)]
        CutAt(n) == Cut(n, SubSeq(v, 2, n))
    IN  IF ~HasPrefix(v, "-") THEN NotOk ELSE CutAt(End(IndexOf(v, "+")))

\* parseBuild: "+" and dot-separated identifiers, to the end of the string.
ParseBuild(v) ==
    LET BadIdents(ids) == \E i \in 1..Len(ids) : ids[i] = Empty
        Cut(body) ==
            IF ~AllIdentChars(body) THEN NotOk
            ELSE IF BadIdents(Idents(body, Empty)) THEN NotOk
            ELSE [ok |-> TRUE, t |-> v, rest |-> Empty]
    IN  IF ~HasPrefix(v, "+") THEN NotOk ELSE Cut(Tail(v))

Parsed(maj, min, pat, short, pre, bld) ==
    [ok |-> TRUE, major |-> maj, minor |-> min, patch |-> pat, short |-> short,
     prerelease |-> pre, build |-> bld]

ParseTail(maj, min, pat, v) ==
    LET None(rest) == [ok |-> TRUE, t |-> Empty, rest |-> rest]
        AfterBuild(pre, bld) ==
            IF ~bld.ok THEN NotOk
            ELSE IF bld.rest # Empty THEN NotOk
            ELSE Parsed(maj, min, pat, Empty, pre.t, bld.t)
        BuildOf(rest) == IF HasPrefix(rest, "+") THEN ParseBuild(rest) ELSE None(rest)
        AfterPrerelease(pre) ==
            IF ~pre.ok THEN NotOk ELSE AfterBuild(pre, BuildOf(pre.rest))
    IN  AfterPrerelease(IF HasPrefix(v, "-") THEN ParsePrerelease(v) ELSE None(v))

\* parse: "v" MAJOR [ "." MINOR [ "." PATCH [ PRERELEASE ] [ BUILD ] ] ].
SemverParse(v) ==
    LET AfterPatch(maj, min, pat) ==
            IF ~pat.ok THEN NotOk ELSE ParseTail(maj.t, min.t, pat.t, pat.rest)
        AfterMinor(maj, min) ==
            IF ~min.ok THEN NotOk
            ELSE IF min.rest = Empty
                 THEN Parsed(maj.t, min.t, <<"0">>, <<".", "0">>, Empty, Empty)
            ELSE IF min.rest[1] # "." THEN NotOk
            ELSE AfterPatch(maj, min, ParseInt(Tail(min.rest)))
        AfterMajor(maj) ==
            IF ~maj.ok THEN NotOk
            ELSE IF maj.rest = Empty
                 THEN Parsed(maj.t, <<"0">>, <<"0">>, <<".", "0", ".", "0">>, Empty, Empty)
            ELSE IF maj.rest[1] # "." THEN NotOk
            ELSE AfterMinor(maj, ParseInt(Tail(maj.rest)))
    IN  IF ~HasPrefix(v, "v") THEN NotOk ELSE AfterMajor(ParseInt(Tail(v)))

SemverIsValid(v) == SemverParse(v).ok

SemverMajor(v) ==
    LET Of(p) == IF ~p.ok THEN Empty ELSE Take(v, 1 + Len(p.major))
    IN  Of(SemverParse(v))

SemverMajorMinor(v) ==
    LET Cut(p, i, j) ==
            IF j <= Len(v) /\ v[i + 1] = "." /\ SubSeq(v, i + 2, j) = p.minor
            THEN Take(v, j)
            ELSE Take(v, i) \o <<".">> \o p.minor
        Of(p) == IF ~p.ok THEN Empty
                 ELSE Cut(p, 1 + Len(p.major), 2 + Len(p.major) + Len(p.minor))
    IN  Of(SemverParse(v))

SemverCanonical(v) ==
    LET Of(p) == IF ~p.ok THEN Empty
                 ELSE IF p.build # Empty THEN Take(v, Len(v) - Len(p.build))
                 ELSE IF p.short # Empty THEN v \o p.short
                 ELSE v
    IN  Of(SemverParse(v))

SemverPrerelease(v) ==
    LET Of(p) == IF ~p.ok THEN Empty ELSE p.prerelease
    IN  Of(SemverParse(v))

SemverBuild(v) ==
    LET Of(p) == IF ~p.ok THEN Empty ELSE p.build
    IN  Of(SemverParse(v))

\* compareInt: digit strings by length, then bytewise.
CompareInt(x, y) ==
    IF x = y THEN 0
    ELSE IF Len(x) < Len(y) THEN -1
    ELSE IF Len(x) > Len(y) THEN 1
    ELSE IF StrLess(x, y) THEN -1
    ELSE 1

CompareIdent(dx, dy) ==
    LET Of(ix, iy) ==
            IF ix # iy THEN (IF ix THEN -1 ELSE 1)
            ELSE IF ix /\ Len(dx) < Len(dy) THEN -1
            ELSE IF ix /\ Len(dx) > Len(dy) THEN 1
            ELSE IF StrLess(dx, dy) THEN -1
            ELSE 1
    IN  Of(AllDigits(dx), AllDigits(dy))

RECURSIVE CompareIdents(_, _)
CompareIdents(xs, ys) ==
    IF xs = Empty THEN -1
    ELSE IF ys = Empty THEN 1
    ELSE IF xs[1] # ys[1] THEN CompareIdent(xs[1], ys[1])
    ELSE CompareIdents(Tail(xs), Tail(ys))

\* comparePrerelease: no prerelease is the larger; otherwise identifier by
\* identifier, numeric identifiers below the others, the shorter list first.
ComparePrerelease(x, y) ==
    IF x = y THEN 0
    ELSE IF x = Empty THEN 1
    ELSE IF y = Empty THEN -1
    ELSE CompareIdents(Idents(Tail(x), Empty), Idents(Tail(y), Empty))

\* semver.Compare: -1, 0 or +1; an invalid version is below every valid one.
SemverCompare(v, w) ==
    LET First(c1, c2, c3, c4) ==
            IF c1 # 0 THEN c1 ELSE IF c2 # 0 THEN c2 ELSE IF c3 # 0 THEN c3 ELSE c4
        Of(pv, pw) ==
            IF ~pv.ok /\ ~pw.ok THEN 0
            ELSE IF ~pv.ok THEN -1
            ELSE IF ~pw.ok THEN 1
            ELSE First(CompareInt(pv.major, pw.major), CompareInt(pv.minor, pw.minor),
                       CompareInt(pv.patch, pw.patch),
                       ComparePrerelease(pv.prerelease, pw.prerelease))
    IN  Of(SemverParse(v), SemverParse(w))

-----------------------------------------------------------------------------
(* Extraction rules: a compiled regexp with named groups is modelled by    *)
(* what FindStringSubmatch returns for it.                                 *)

NoRule == "NoRule"

\* ^release-(?P<major>\d+)(?:\.(?P<minor>\d+))?(?:\.(?P<patch>\d+))?$
ReleaseRule == "ReleaseRule"

\* ^.*(?P<version>v\d+(?:\.\d+){0,2}(?:-[^+]+)?(?:\+.+)?)$
VersionRule == "VersionRule"

NoMatch == [matched |-> FALSE]

Groups(ver, maj, min, pat, pre, bld) ==
    [matched |-> TRUE, version |-> ver, major |-> maj, minor |-> min, patch |-> pat,
     prerelease |-> pre, build |-> bld]

\* \d+ at the start of s: the digits and the rest, or no match.
DigitsPlus(s) ==
    LET Cut(n) == IF n = 0 THEN NotOk ELSE [ok |-> TRUE, t |-> Take(s, n), rest |-> Drop(s, n)]
    IN  Cut(DigitRun(s))

MatchRelease(v) ==
    LET AfterPatch(maj, min, pat) ==
            IF ~pat.ok \/ pat.rest # Empty THEN NoMatch
            ELSE Groups(Empty, maj.t, min.t, pat.t, Empty, Empty)
        AfterMinor(maj, min) ==
            IF ~min.ok THEN NoMatch
            ELSE IF min.rest = Empty THEN Groups(Empty, maj.t, min.t, Empty, Empty, Empty)
            ELSE IF min.rest[1] # "." THEN NoMatch
            ELSE AfterPatch(maj, min, DigitsPlus(Tail(min.rest)))
        AfterMajor(maj) ==
            IF ~maj.ok THEN NoMatch
            ELSE IF maj.rest = Empty THEN Groups(Empty, maj.t, Empty, Empty, Empty, Empty)
            ELSE IF maj.rest[1] # "." THEN NoMatch
            ELSE AfterMinor(maj, DigitsPlus(Tail(maj.rest)))
    IN  IF ~HasPrefix(v, "release-") THEN NoMatch ELSE AfterMajor(DigitsPlus(Tail(v)))

\* (?:-[^+]+)?(?:\+.+)?$ on the rest of a version.
MatchSuffix(s) ==
    LET Both(pre, bld) ==
            /\ pre = Empty \/ (pre[1] = "-" /\ Len(pre) >= 2)
            /\ bld = Empty \/ Len(bld) >= 2
        At(p) == Both(IF p = 0 THEN s ELSE Take(s, p - 1),
                      IF p = 0 THEN Empty ELSE Drop(s, p - 1))
    IN  At(IndexOf(s, "+"))

\* v\d+(?:\.\d+){0,2}(?:-[^+]+)?(?:\+.+)?$ on the whole of s.
MatchVersionBody(s) ==
    LET Next(rest) == IF HasPrefix(rest, ".") THEN DigitsPlus(Tail(rest)) ELSE NotOk
        AfterPatch(min, pat) == MatchSuffix(IF ~pat.ok THEN min.rest ELSE pat.rest)
        AfterMinor(maj, min) ==
            IF ~min.ok THEN AfterPatch(maj, min) ELSE AfterPatch(min, Next(min.rest))
        AfterMajor(maj) == IF ~maj.ok THEN FALSE ELSE AfterMinor(maj, Next(maj.rest))
    IN  IF ~HasPrefix(s, "v") THEN FALSE ELSE AfterMajor(DigitsPlus(Tail(s)))

\* The greedy ^.* leaves the version group the shortest suffix that matches.
MatchVersion(v) ==
    LET Last(starts) == CHOOSE k \in starts : \A m \in starts : m <= k
        Of(starts) ==
            IF starts = {} THEN NoMatch
            ELSE Groups(Drop(v, Last(starts) - 1), Empty, Empty, Empty, Empty, Empty)
    IN  Of({i \in 1..Len(v) : MatchVersionBody(Drop(v, i - 1))})

\* ^release-(?P<major>\d+)(?:\.(?P<minor>\d+))?(?:\.(?P<patch>\d+))?
\*     (?:-(?P<prerelease>[a-z]+))?(?:\+(?P<build>[a-z]+))?$
\* a rule that fills every named group canonicalWithRegex reads.
GroupsRule == "GroupsRule"

MatchGroups(v) ==
    LET Letters(s) == s # Empty /\ \A i \in 1..Len(s) : s[i] \in {"a", "b", "r"}
        Ends(maj, min, pat, pre, bld) ==
            IF /\ pre = Empty \/ (pre[1] = "-" /\ Letters(Tail(pre)))
               /\ bld = Empty \/ Letters(Tail(bld))
            THEN Groups(Empty, maj, min, pat,
                        IF pre = Empty THEN Empty ELSE Tail(pre),
                        IF bld = Empty THEN Empty ELSE Tail(bld))
            ELSE NoMatch
        Suffix(maj, min, pat, rest, p) ==
            Ends(maj, min, pat, IF p = 0 THEN rest ELSE Take(rest, p - 1),
                 IF p = 0 THEN Empty ELSE Drop(rest, p - 1))
        AfterPatch(maj, min, pat) ==
            IF ~pat.ok THEN NoMatch
            ELSE Suffix(maj.t, min.t, pat.t, pat.rest, IndexOf(pat.rest, "+"))
        AfterMinor(maj, min) ==
            IF ~min.ok THEN NoMatch
            ELSE IF HasPrefix(min.rest, ".") THEN AfterPatch(maj, min, DigitsPlus(Tail(min.rest)))
            ELSE Suffix(maj.t, min.t, Empty, min.rest, IndexOf(min.rest, "+"))
        AfterMajor(maj) ==
            IF ~maj.ok THEN NoMatch
            ELSE IF HasPrefix(maj.rest, ".") THEN AfterMinor(maj, DigitsPlus(Tail(maj.rest)))
            ELSE Suffix(maj.t, Empty, Empty, maj.rest, IndexOf(maj.rest, "+"))
    IN  IF ~HasPrefix(v, "release-") THEN NoMatch ELSE AfterMajor(DigitsPlus(Tail(v)))

\* re.FindStringSubmatch(v), read through getSubexpValue.
FindStringSubmatch(re, v) ==
    CASE re = ReleaseRule -> MatchRelease(v)
      [] re = VersionRule -> MatchVersion(v)
      [] re = GroupsRule -> MatchGroups(v)

-----------------------------------------------------------------------------
(* Package updater.                                                        *)

NoPolicy == "NoPolicy"

NoError == "nil"

ErrPolicyRejection == "ErrPolicyRejection"

ErrTypeMismatch == "ErrTypeMismatch"

ErrInvalidTarget == "ErrInvalidTarget"

ErrBaseline == "ErrBaseline"

ErrNoMatch == "ErrNoMatch"

ErrNoStrategy == "ErrNoStrategy"

IsNotValid(err) == err \in {ErrInvalidTarget, ErrPolicyRejection, ErrTypeMismatch}

\* makeOptions() with no Option applied.
NoOptions == [transformRegex |-> NoRule, policy |-> NoPolicy]

WithTransform(re) == [transformRegex |-> re, policy |-> NoPolicy]

WithPolicy(ut) == [transformRegex |-> NoRule, policy |-> ut]

CanonicalVersion == "CanonicalVersion"

MajorMinorVersion == "MajorMinorVersion"

MajorVersion == "MajorVersion"

PreReleaseVersion == "PreReleaseVersion"

MajorRelease == "MajorRelease"

PathRelease == "PathRelease"

MinorRelease == "MinorRelease"

OrZero(s) == IF s = Empty THEN <<"0">> ELSE s

\* canonicalWithRegex leaving an empty group empty.
canonicalWithRegexWithoutDefaults(m) ==
    <<"v">> \o m.major \o <<".">> \o m.minor \o <<".">> \o m.patch
        \o (IF m.prerelease # Empty THEN <<"-">> \o m.prerelease ELSE Empty)
        \o (IF m.build # Empty THEN <<"+">> \o m.build ELSE Empty)

canonicalWithRegex(m) ==
    <<"v">> \o OrZero(m.major) \o <<".">> \o OrZero(m.minor) \o <<".">> \o OrZero(m.patch)
        \o (IF m.prerelease # Empty THEN <<"-">> \o m.prerelease ELSE Empty)
        \o (IF m.build # Empty THEN <<"+">> \o m.build ELSE Empty)

\* The leading marker always added, whatever the tag starts with.
NormalizePrefixPrepending(v) == <<"v">> \o v

\* The leading marker: "V" becomes "v", a missing one is added.
NormalizePrefix(v) ==
    IF HasPrefix(v, "V") THEN <<"v">> \o Tail(v)
    ELSE IF ~HasPrefix(v, "v") THEN <<"v">> \o v
    ELSE v

\* Canonical(v, opts...): [v, err].
Canonical(v, o) ==
    LET Of(m) ==
            IF ~m.matched THEN [v |-> Empty, err |-> ErrNoMatch]
            ELSE [v |-> NormalizePrefix(IF m.version # Empty THEN m.version
                                        ELSE canonicalWithRegex(m)),
                  err |-> NoError]
    IN  IF o.transformRegex # NoRule THEN Of(FindStringSubmatch(o.transformRegex, v))
        ELSE [v |-> NormalizePrefix(v), err |-> NoError]

\* The switch that ends Type, on a marker-normalized version.
TypeOfCanonical(v) ==
    IF SemverPrerelease(v) # Empty \/ SemverBuild(v) # Empty
        THEN [t |-> PreReleaseVersion, err |-> NoError]
    ELSE IF v = SemverMajor(v) THEN [t |-> MajorVersion, err |-> NoError]
    ELSE IF v = SemverMajorMinor(v) THEN [t |-> MajorMinorVersion, err |-> NoError]
    ELSE IF v = SemverCanonical(v) THEN [t |-> CanonicalVersion, err |-> NoError]
    ELSE [t |-> CanonicalVersion, err |-> ErrNoStrategy]

\* Type(v, opts...): [t, err]; t is the zero VersionType when err is set.
Type(v, o) ==
    LET Of(m) ==
            IF ~m.matched THEN [t |-> CanonicalVersion, err |-> ErrNoMatch]
            ELSE IF m.version # Empty THEN TypeOfCanonical(Canonical(m.version, NoOptions).v)
            ELSE IF m.prerelease # Empty THEN [t |-> PreReleaseVersion, err |-> NoError]
            ELSE IF m.patch # Empty THEN [t |-> CanonicalVersion, err |-> NoError]
            ELSE IF m.minor # Empty THEN [t |-> MajorMinorVersion, err |-> NoError]
            ELSE IF m.major # Empty THEN [t |-> MajorVersion, err |-> NoError]
            ELSE [t |-> CanonicalVersion, err |-> ErrNoStrategy]
    IN  IF o.transformRegex # NoRule THEN Of(FindStringSubmatch(o.transformRegex, v))
        ELSE TypeOfCanonical(Canonical(v, NoOptions).v)

\* strconv.Atoi on a component: [n, ok].
RECURSIVE DigitsValue(_)
DigitsValue(s) ==
    IF s = Empty THEN 0
    ELSE DigitsValue(Take(s, Len(s) - 1)) * 10 + (Ord(s[Len(s)]) - 48)

Atoi(s) ==
    IF s # Empty /\ AllDigits(s) THEN [ok |-> TRUE, n |-> DigitsValue(s)]
    ELSE [ok |-> FALSE, n |-> 0]

\* strings.Split(v, "."), at least one part.
SplitDots(v) == Idents(v, Empty)

\* semverParts: [ok, major, minor, patch].
semverParts(v0) ==
    LET Numbers(p1, p2, p3) ==
            [ok |-> p1.ok /\ p2.ok /\ p3.ok, major |-> p1.n, minor |-> p2.n, patch |-> p3.n]
        Part(parts, i) == IF Len(parts) >= i THEN Atoi(parts[i]) ELSE [ok |-> TRUE, n |-> 0]
        OfParts(parts) == Numbers(Atoi(parts[1]), Part(parts, 2), Part(parts, 3))
        CutAt(v1, cut) ==
            IF cut = {} THEN v1 ELSE Take(v1, (CHOOSE i \in cut : \A k \in cut : i <= k) - 1)
        Trimmed(v1) == OfParts(SplitDots(CutAt(v1, {i \in 1..Len(v1) : v1[i] \in {"-", "+"}})))
    IN  Trimmed(IF HasPrefix(v0, "v") THEN Tail(v0) ELSE v0)

\* Policy looking at the major and minor components only.
PolicyIgnoringPatch(b) ==
    LET Of(parts) ==
            IF ~parts.ok THEN [p |-> MajorRelease, err |-> ErrBaseline]
            ELSE IF parts.major = 0 /\ parts.minor > 0 THEN [p |-> MinorRelease, err |-> NoError]
            ELSE [p |-> MajorRelease, err |-> NoError]
    IN  Of(semverParts(b))

\* Policy(baseline): [p, err].
Policy(b) ==
    LET Of(parts) ==
            IF ~parts.ok THEN [p |-> MajorRelease, err |-> ErrBaseline]
            ELSE IF parts.major = 0 /\ parts.minor = 0 /\ parts.patch > 0
                THEN [p |-> PathRelease, err |-> NoError]
            ELSE IF parts.major = 0 /\ parts.minor > 0 THEN [p |-> MinorRelease, err |-> NoError]
            ELSE [p |-> MajorRelease, err |-> NoError]
    IN  Of(semverParts(b))

Equal == "Equal"

Greater == "Greater"

Less == "Less"

Result(c, e) == [cmp |-> c, err |-> e]

\* CompareCanonical with the sign convention turned around: a newer target
\* reported as Less.
CompareCanonicalInverted(b, t, o) ==
    LET Of(c) ==
            IF c = 0 THEN Result(Equal, NoError)
            ELSE IF c < 0 THEN Result(Less, NoError)
            ELSE Result(Greater, NoError)
    IN  Of(SemverCompare(b, t))

\* The switch on semver.Compare that ends Compare, on the canonical forms.
CompareCanonical(b, t, o) ==
    LET Allowed(pol) ==
            IF pol.err # NoError THEN Result(Equal, ErrPolicyRejection)
            ELSE IF o.policy # pol.p THEN Result(Equal, ErrPolicyRejection)
            ELSE Result(Greater, NoError)
        Of(c) ==
            IF c = 0 THEN Result(Equal, NoError)
            ELSE IF c < 0
            THEN IF o.policy # NoPolicy THEN Allowed(Policy(b)) ELSE Result(Greater, NoError)
            ELSE Result(Less, NoError)
    IN  Of(SemverCompare(b, t))

\* Compare reporting a target of another type as Less with no error.
CompareLenientMismatch(b, t, o) ==
    LET OfTypes(baselineType, targetType) ==
            IF baselineType.err # NoError THEN Result(Equal, ErrBaseline)
            ELSE IF targetType.err # NoError THEN Result(Equal, ErrInvalidTarget)
            ELSE IF targetType.t # baselineType.t THEN Result(Less, NoError)
            ELSE CompareCanonical(Canonical(b, o).v, Canonical(t, o).v, o)
    IN  IF b = <<"latest">> THEN Result(Greater, NoError)
        ELSE OfTypes(Type(b, o), Type(t, o))

\* Compare without the test for the "latest" sentinel.
CompareWithoutSentinel(b, t, o) ==
    LET OfTypes(baselineType, targetType) ==
            IF baselineType.err # NoError THEN Result(Equal, ErrBaseline)
            ELSE IF targetType.err # NoError THEN Result(Equal, ErrInvalidTarget)
            ELSE IF targetType.t # baselineType.t THEN Result(Equal, ErrTypeMismatch)
            ELSE CompareCanonical(Canonical(b, o).v, Canonical(t, o).v, o)
    IN  OfTypes(Type(b, o), Type(t, o))

\* Compare(baseline, target, opts...): [cmp, err].
Compare(b, t, o) ==
    LET OfCanonicals(cb, ct) ==
            IF cb.err # NoError THEN Result(Equal, ErrBaseline)
            ELSE IF ct.err # NoError THEN Result(Equal, ErrInvalidTarget)
            ELSE CompareCanonical(cb.v, ct.v, o)
        OfTypes(baselineType, targetType) ==
            IF baselineType.err # NoError THEN Result(Equal, ErrBaseline)
            ELSE IF targetType.err # NoError THEN Result(Equal, ErrInvalidTarget)
            ELSE IF targetType.t # baselineType.t THEN Result(Equal, ErrTypeMismatch)
            ELSE OfCanonicals(Canonical(b, o), Canonical(t, o))
    IN  IF b = <<"latest">> THEN Result(Greater, NoError)
        ELSE OfTypes(Type(b, o), Type(t, o))

-----------------------------------------------------------------------------
(* The resolvers: packages container, helm and github.                     *)

Found(tag, err) == [tag |-> tag, err |-> err]

\* The loop of FindLatestTag over the tags left, bestTag being best.
RECURSIVE FindLatestTagLoop(_, _, _, _, _)
FindLatestTagLoop(imageTag, tags, excl, o, best) ==
    LET Step(c) ==
            IF c.err # NoError THEN Found(Empty, c.err)
            ELSE IF c.cmp \in {Equal, Greater}
                 THEN FindLatestTagLoop(imageTag, Tail(tags), excl, o, Head(tags))
            ELSE FindLatestTagLoop(imageTag, Tail(tags), excl, o, best)
    IN  IF tags = Empty THEN Found(best, NoError)
        ELSE IF Head(tags) \in excl THEN FindLatestTagLoop(imageTag, Tail(tags), excl, o, best)
        ELSE Step(Compare(imageTag, Head(tags), o))

\* s back to front.
Reverse(s) == [i \in 1..Len(s) |-> s[Len(s) + 1 - i]]

\* FindLatestTag keeping the first acceptable tag of the enumeration, not the
\* last.
FindLatestTagKeepingFirst(imageTag, tags, excl, o) ==
    FindLatestTagLoop(imageTag, Reverse(tags), excl, o, Empty)

\* container.FindLatestTag(ctx, imageRef, WithExcludes(excl), WithUpdateOptions(o))
\* when ListTags returns tags.
FindLatestTag(imageTag, tags, excl, o) == FindLatestTagLoop(imageTag, tags, excl, o, Empty)

\* The loop of FindLatestVersion over the versions left.
RECURSIVE FindLatestVersionLoop(_, _, _, _, _)
FindLatestVersionLoop(version, vers, excl, o, best) ==
    LET Step(c) ==
            IF c.err # NoError THEN Found(Empty, c.err)
            ELSE IF c.cmp \in {Equal, Greater}
                 THEN FindLatestVersionLoop(version, Tail(vers), excl, o, Head(vers))
            ELSE FindLatestVersionLoop(version, Tail(vers), excl, o, best)
    IN  IF vers = Empty THEN Found(best, NoError)
        ELSE IF Head(vers) \in excl THEN FindLatestVersionLoop(version, Tail(vers), excl, o, best)
        ELSE Step(Compare(version, Head(vers), o))

\* FindLatestVersion without the test on the exclusion set.
FindLatestVersionIgnoringExcludes(version, vers, excl, o) ==
    FindLatestVersionLoop(version, vers, {}, o, Empty)

\* helm.FindLatestVersion(ctx, chart, WithExcludes(excl), WithUpdateOptions(o))
\* when ListVersions returns vers.
FindLatestVersion(version, vers, excl, o) == FindLatestVersionLoop(version, vers, excl, o, Empty)

\* The loop of FindLatestActionTag over the tags left: the tag is the first
\* argument of Compare and the action's version the second.
RECURSIVE FindLatestActionTagLoop(_, _, _, _, _)
FindLatestActionTagLoop(version, tags, excl, o, best) ==
    LET Step(c) ==
            IF c.err # NoError THEN Found(Empty, c.err)
            ELSE IF c.cmp \in {Equal, Greater}
                 THEN FindLatestActionTagLoop(version, Tail(tags), excl, o, Head(tags))
            ELSE FindLatestActionTagLoop(version, Tail(tags), excl, o, best)
    IN  IF tags = Empty THEN Found(best, NoError)
        ELSE IF Head(tags) \in excl THEN FindLatestActionTagLoop(version, Tail(tags), excl, o, best)
        ELSE Step(Compare(Head(tags), version, o))

\* FindLatestActionTag passing over a tag that Compare fails on.
FindLatestActionTagSwallowingErrors(version, tags, excl, o) ==
    FindLatestActionTagLoop(version, tags,
        excl \cup {tags[i] : i \in {k \in 1..Len(tags) : Compare(tags[k], version, o).err # NoError}},
        o, Empty)

\* (*Client).FindLatestActionTag(ctx, action, WithExcludes(excl), WithUpdateOptions(o))
\* once the limiter has given a token and ListTags has returned tags.
FindLatestActionTag(version, tags, excl, o) ==
    FindLatestActionTagLoop(version, tags, excl, o, Empty)

-----------------------------------------------------------------------------
(* The resolve-and-rewrite filters: package kio.                           *)

NoCall == [kind |-> "none"]

NotResolved == [tag |-> Empty, err |-> "NotCalled"]

\* What one run of a filter leaves: the entry, the error returned, and the
\* resolver call it made with what that call returned.
Ran(d, err, c, l) == [doc |-> d, err |-> err, call |-> c, latest |-> l]

Resolving(kind, cur, tags, excl, o) ==
    [kind |-> kind, cur |-> cur, tags |-> tags, excludes |-> excl, opts |-> o]

\* strings.Split(s, sep): the parts of s between the occurrences of sep.
RECURSIVE Split(_, _, _)
Split(s, sep, cur) ==
    IF s = Empty THEN <<cur>>
    ELSE IF s[1] = sep THEN <<cur>> \o Split(Tail(s), sep, Empty)
    ELSE Split(Tail(s), sep, Append(cur, s[1]))

\* github.ParseActionRef: [ok, owner, repo, version].
ParseActionRef(uses) ==
    LET OfPath(parts, pathParts) ==
            IF Len(pathParts) # 2 \/ pathParts[1] = Empty \/ pathParts[2] = Empty
            THEN NotOk
            ELSE [ok |-> TRUE, owner |-> pathParts[1], repo |-> pathParts[2],
                  version |-> parts[2]]
        Of(parts) ==
            IF uses = Empty \/ Len(parts) # 2 THEN NotOk
            ELSE IF parts[1] = Empty \/ parts[2] = Empty THEN NotOk
            ELSE OfPath(parts, Split(parts[1], "/", Empty))
    IN  Of(Split(uses, "@", Empty))

\* ActionRef.String.
ActionRefString(owner, repo, version) == owner \o <<"/">> \o repo \o <<"@">> \o version

NoField == <<"(missing)">>

ErrParse == "ErrParse"

\* UpdateGitHubWorkflowStep writing the tag alone, without owner and repo.
UpdateGitHubWorkflowStepWritingTag(step, tags, excl) ==
    LET Set(ref, c, l) ==
            IF l.err # NoError THEN Ran(step, l.err, c, l)
            ELSE IF l.tag = Empty THEN Ran(step, NoError, c, l)
            ELSE Ran([step EXCEPT !.uses = l.tag], NoError, c, l)
        Of(ref) ==
            IF ~ref.ok THEN Ran(step, ErrParse, NoCall, NotResolved)
            ELSE Set(ref, Resolving("action", ref.version, tags, excl, NoOptions),
                     FindLatestActionTag(ref.version, tags, excl, NoOptions))
    IN  IF step.uses = NoField \/ step.uses = Empty THEN Ran(step, NoError, NoCall, NotResolved)
        ELSE Of(ParseActionRef(step.uses))

\* UpdateGitHubWorkflowStep with github.Updater{excl}: the step's uses gets
\* the tag the resolver returns.
UpdateGitHubWorkflowStep(step, tags, excl) ==
    LET Set(ref, c, l) ==
            IF l.err # NoError THEN Ran(step, l.err, c, l)
            ELSE IF l.tag = Empty THEN Ran(step, NoError, c, l)
            ELSE Ran([step EXCEPT !.uses = ActionRefString(ref.owner, ref.repo, l.tag)],
                     NoError, c, l)
        Of(ref) ==
            IF ~ref.ok THEN Ran(step, ErrParse, NoCall, NotResolved)
            ELSE Set(ref, Resolving("action", ref.version, tags, excl, NoOptions),
                     FindLatestActionTag(ref.version, tags, excl, NoOptions))
    IN  IF step.uses = NoField \/ step.uses = Empty THEN Ran(step, NoError, NoCall, NotResolved)
        ELSE Of(ParseActionRef(step.uses))

\* strings.Contains(url, "://") on the URLs of the model.
HasScheme(url) == url = <<"https://charts">>

ErrChart == "ErrChart"

\* UpdateK0sctlConfigchart writing the resolver's answer even when it is the
\* empty string.
UpdateK0sctlConfigchartWritingEmpty(chart, repos, vers, excl) ==
    LET Set(c, l) ==
            IF l.err # NoError THEN Ran(chart, l.err, c, l)
            ELSE Ran([chart EXCEPT !.version = l.tag], NoError, c, l)
        Resolve(version) ==
            Set(Resolving("chart", version, vers, excl, NoOptions),
                FindLatestVersion(version, vers, excl, NoOptions))
        Of(parts) ==
            IF chart.chartname = Empty \/ Len(parts) < 2
                THEN Ran(chart, ErrChart, NoCall, NotResolved)
            ELSE IF parts[1] \notin DOMAIN repos THEN Ran(chart, ErrChart, NoCall, NotResolved)
            ELSE IF repos[parts[1]] = Empty \/ ~HasScheme(repos[parts[1]])
                THEN Ran(chart, ErrChart, NoCall, NotResolved)
            ELSE Resolve(IF chart.version = Empty THEN <<"latest">> ELSE chart.version)
    IN  Of(Split(chart.chartname, "/", Empty))

\* UpdateK0sctlConfigchart resolving the chart whatever the URL of its
\* repository is.
UpdateK0sctlConfigchartTrustingURL(chart, repos, vers, excl) ==
    LET Set(c, l) ==
            IF l.err # NoError THEN Ran(chart, l.err, c, l)
            ELSE IF l.tag = Empty THEN Ran(chart, NoError, c, l)
            ELSE Ran([chart EXCEPT !.version = l.tag], NoError, c, l)
        Resolve(version) ==
            Set(Resolving("chart", version, vers, excl, NoOptions),
                FindLatestVersion(version, vers, excl, NoOptions))
        Of(parts) ==
            IF chart.chartname = Empty \/ Len(parts) < 2
                THEN Ran(chart, ErrChart, NoCall, NotResolved)
            ELSE IF parts[1] \notin DOMAIN repos THEN Ran(chart, ErrChart, NoCall, NotResolved)
            ELSE Resolve(IF chart.version = Empty THEN <<"latest">> ELSE chart.version)
    IN  Of(Split(chart.chartname, "/", Empty))

\* UpdateK0sctlConfigchart resolving an empty version as it is.
UpdateK0sctlConfigchartKeepingEmpty(chart, repos, vers, excl) ==
    LET Set(c, l) ==
            IF l.err # NoError THEN Ran(chart, l.err, c, l)
            ELSE IF l.tag = Empty THEN Ran(chart, NoError, c, l)
            ELSE Ran([chart EXCEPT !.version = l.tag], NoError, c, l)
        Resolve(version) ==
            Set(Resolving("chart", version, vers, excl, NoOptions),
                FindLatestVersion(version, vers, excl, NoOptions))
        Of(parts) ==
            IF chart.chartname = Empty \/ Len(parts) < 2
                THEN Ran(chart, ErrChart, NoCall, NotResolved)
            ELSE IF parts[1] \notin DOMAIN repos THEN Ran(chart, ErrChart, NoCall, NotResolved)
            ELSE IF repos[parts[1]] = Empty \/ ~HasScheme(repos[parts[1]])
                THEN Ran(chart, ErrChart, NoCall, NotResolved)
            ELSE Resolve(chart.version)
    IN  Of(Split(chart.chartname, "/", Empty))

\* UpdateK0sctlConfigchart with helm.Updater{excl}: the chart's version gets
\* the version the resolver returns; an empty version resolves as "latest".
UpdateK0sctlConfigchart(chart, repos, vers, excl) ==
    LET Set(c, l) ==
            IF l.err # NoError THEN Ran(chart, l.err, c, l)
            ELSE IF l.tag = Empty THEN Ran(chart, NoError, c, l)
            ELSE Ran([chart EXCEPT !.version = l.tag], NoError, c, l)
        Resolve(version) ==
            Set(Resolving("chart", version, vers, excl, NoOptions),
                FindLatestVersion(version, vers, excl, NoOptions))
        Of(parts) ==
            IF chart.chartname = Empty \/ Len(parts) < 2
                THEN Ran(chart, ErrChart, NoCall, NotResolved)
            ELSE IF parts[1] \notin DOMAIN repos THEN Ran(chart, ErrChart, NoCall, NotResolved)
            ELSE IF repos[parts[1]] = Empty \/ ~HasScheme(repos[parts[1]])
                THEN Ran(chart, ErrChart, NoCall, NotResolved)
            ELSE Resolve(IF chart.version = Empty THEN <<"latest">> ELSE chart.version)
    IN  Of(Split(chart.chartname, "/", Empty))

\* UpdateKustomizationImages setting the name of the entry as its newName
\* along with the newTag.
UpdateKustomizationImagesSettingName(image, tags, excl) ==
    LET Set(c, l) ==
            IF l.err # NoError THEN Ran(image, l.err, c, l)
            ELSE IF l.tag = Empty THEN Ran(image, NoError, c, l)
            ELSE Ran([image EXCEPT !.newTag = l.tag, !.newName = image.name], NoError, c, l)
        Resolve(o) ==
            Set(Resolving("image", image.newTag, tags, excl, o),
                FindLatestTag(image.newTag, tags, excl, o))
    IN  Resolve(IF image.tagRegex # NoRule THEN WithTransform(image.tagRegex) ELSE NoOptions)

\* UpdateKustomizationImages on one images entry that the annotation names:
\* the entry's newTag gets the tag the resolver returns, under the
\* annotation's tag-regex and exclude-tags.
UpdateKustomizationImages(image, tags, excl) ==
    LET Set(c, l) ==
            IF l.err # NoError THEN Ran(image, l.err, c, l)
            ELSE IF l.tag = Empty THEN Ran(image, NoError, c, l)
            ELSE Ran([image EXCEPT !.newTag = l.tag], NoError, c, l)
        Resolve(o) ==
            Set(Resolving("image", image.newTag, tags, excl, o),
                FindLatestTag(image.newTag, tags, excl, o))
    IN  Resolve(IF image.tagRegex # NoRule THEN WithTransform(image.tagRegex) ELSE NoOptions)

-----------------------------------------------------------------------------
(* The version strings the checks draw from.                               *)

Absent == -1

Markers == {Empty, <<"v">>, <<"V">>}

Majors == (0..MaxNum) \cup {WideMajor}

Minors == 0..MaxNum

\* A prerelease and a build suffix.
Suffixes == {<<"-", "r">>, <<"+", "b">>}

\* major, then optionally minor, then optionally patch, then optionally a
\* suffix; a component is Absent or a natural number.
VersionShapes ==
    {vs \in [marker : Markers, major : Majors, minor : Minors \cup {Absent},
             patch : Minors \cup {Absent}, suffix : Suffixes \cup {Empty}] :
        /\ vs.minor = Absent => vs.patch = Absent
        /\ vs.patch = Absent => vs.suffix = Empty}

Render(vs) ==
    vs.marker \o Itoa(vs.major)
        \o (IF vs.minor = Absent THEN Empty ELSE <<".">> \o Itoa(vs.minor))
        \o (IF vs.patch = Absent THEN Empty ELSE <<".">> \o Itoa(vs.patch))
        \o vs.suffix

ValidTags == {Render(vs) : vs \in VersionShapes}

\* Strings that are no version: the sentinel, free-form tags, a leading zero,
\* a prerelease on a short version, a doubled marker.
InvalidTags ==
    {<<"latest">>, <<"dev">>, <<"old">>, Empty, <<"v", "0", "1">>,
     <<"v", "1", "-", "r">>, <<"v", "v", "1">>, <<"release-", "1">>}

Tags == ValidTags \cup InvalidTags

\* The shape a valid tag was rendered from.
ShapeOf == [s \in ValidTags |-> CHOOSE vs \in VersionShapes : Render(vs) = s]

-----------------------------------------------------------------------------
(* Specification of Compare as a pure function: an argument pair is drawn  *)
(* and Compare is applied to it.                                           *)

\* The value of a result variable before the call returns.
NotCalled == [cmp |-> "NotCalled", err |-> "NotCalled"]

\* The variables of the filter runs, at rest.
RunIdle ==
    /\ doc = [kind |-> "none"]
    /\ source = Empty
    /\ excludes = {}
    /\ call = [kind |-> "none"]
    /\ latest = [tag |-> Empty, err |-> "NotCalled"]
    /\ docs = Empty
    /\ failure = "NotRun"
    /\ GroupIdle

CompareInit ==
    /\ RunIdle
    /\ baseline \in Tags
    /\ opts = NoOptions
    /\ target = Empty
    /\ verdict = NotCalled

CallCompare ==
    /\ verdict = NotCalled
    /\ \E t \in Tags :
        /\ target' = t
        /\ verdict' = Compare(baseline, t, opts)
    /\ UNCHANGED <<baseline, opts>>
    /\ UNCHANGED runVars

CompareNext == CallCompare

SpecCompare == CompareInit /\ [][CompareNext]_vars

-----------------------------------------------------------------------------
(* What a version string means, read off the shape it was rendered from    *)
(* and not off the string.                                                 *)

NumOf(x) == IF x = Absent THEN 0 ELSE x

ShapeType(vs) ==
    IF vs.suffix # Empty THEN PreReleaseVersion
    ELSE IF vs.patch # Absent THEN CanonicalVersion
    ELSE IF vs.minor # Absent THEN MajorMinorVersion
    ELSE MajorVersion

\* A prerelease precedes its release; build metadata does not order.
ReleaseRank(vs) == IF HasPrefix(vs.suffix, "-") THEN 0 ELSE 1

ShapeOlder(a, b) ==
    \/ a.major < b.major
    \/ a.major = b.major /\ NumOf(a.minor) < NumOf(b.minor)
    \/ a.major = b.major /\ NumOf(a.minor) = NumOf(b.minor) /\ NumOf(a.patch) < NumOf(b.patch)
    \/ /\ a.major = b.major
       /\ NumOf(a.minor) = NumOf(b.minor)
       /\ NumOf(a.patch) = NumOf(b.patch)
       /\ ReleaseRank(a) < ReleaseRank(b)

\* The verdict the convention asks for: Greater when the target is newer.
Expected(b, t) ==
    IF ShapeOlder(b, t) THEN Greater
    ELSE IF ShapeOlder(t, b) THEN Less
    ELSE Equal

Called == verdict # NotCalled

BothValid == baseline \in ValidTags /\ target \in ValidTags

-----------------------------------------------------------------------------
(* Claims about Compare.                                                   *)

\* C1: for two valid versions of the same VersionType, with no release-class
\* gate and a baseline other than "latest", Compare returns Greater when the
\* target is newer than the baseline, Less when it is older and Equal when
\* they denote the same version, whatever the leading markers are.
C1_CompareOrdersSameType ==
    (/\ Called
     /\ BothValid
     /\ opts.policy = NoPolicy
     /\ baseline # <<"latest">>
     /\ ShapeType(ShapeOf[baseline]) = ShapeType(ShapeOf[target]))
        => verdict = Result(Expected(ShapeOf[baseline], ShapeOf[target]), NoError)

\* A newer target with another marker than the baseline has been compared.
C1_Witness ==
    /\ baseline = <<"1", ".", "0">>
    /\ target = <<"V", "1", ".", "1">>
    /\ verdict = Result(Greater, NoError)

C3_LatestIsLess ==
    (Called /\ baseline = <<"latest">> /\ target \in ValidTags)
        => verdict = Result(Less, NoError)

\* C3 as amended: with the baseline "latest" Compare returns Greater, the
\* verdict the resolvers accept, for every valid target.
C3_LatestIsGreater ==
    (Called /\ baseline = <<"latest">> /\ target \in ValidTags)
        => verdict = Result(Greater, NoError)

\* A valid target has been compared with the baseline "latest".
C3_Witness ==
    /\ baseline = <<"latest">>
    /\ target = <<"v", "1", ".", "1", ".", "1">>
    /\ Called

-----------------------------------------------------------------------------
(* Specification of the filters: a document entry, a candidate list and an *)
(* exclusion set are drawn, and the filter of the entry's kind runs on it  *)
(* again and again while the external source keeps its answer.             *)

\* Longest candidate list the source enumerates.
MaxCands == 3

\* Number of runs of a filter on one document.
MaxRuns == 2

V1 == <<"v", "1">>

V2 == <<"v", "2">>

V11 == <<"v", "1", ".", "1">>

\* What the source may enumerate: two versions of one type, a version of
\* another type and a tag that is no version.
CandidateTags == {V1, V2, V11, <<"dev">>}

\* The version-bearing field at the start.
CurrentVersions == {V1, V2, <<"1">>, <<"old">>, Empty}

\* The sequences over S of length n at most.
SeqsUpTo(S, n) == UNION {[1..k -> S] : k \in 0..n}

CandidateLists == SeqsUpTo(CandidateTags, MaxCands)

ExcludeSets == {{}, {V2}, {<<"dev">>}}

\* The helm repositories the chart filter is given, name to URL: one with a
\* URL, one whose URL has no scheme and one whose URL is empty.
Repositories ==
    (<<"stable">> :> <<"https://charts">>) @@ (<<"local">> :> <<"charts">>)
        @@ (<<"blank">> :> Empty)

ImageEntries ==
    {[kind |-> "image", name |-> "app", newName |-> "repo/app", newTag |-> v, tagRegex |-> re] :
        v \in CurrentVersions, re \in {NoRule, VersionRule}}

ChartEntries ==
    {[kind |-> "chart", chartname |-> <<"stable", "/", "nginx">>, version |-> v] :
        v \in CurrentVersions}
    \cup {[kind |-> "chart", chartname |-> name, version |-> V1] :
              name \in {<<"local", "/", "nginx">>, <<"blank", "/", "nginx">>,
                        <<"gone", "/", "nginx">>, <<"nginx">>}}

StepEntries ==
    {[kind |-> "step", name |-> "checkout", uses |-> <<"actions", "/", "checkout", "@">> \o v] :
        v \in CurrentVersions}
    \cup {[kind |-> "step", name |-> "run", uses |-> NoField]}

Entries == ImageEntries \cup ChartEntries \cup StepEntries

CompareIdle ==
    /\ baseline = Empty
    /\ target = Empty
    /\ opts = NoOptions
    /\ verdict = NotCalled

Init ==
    /\ CompareIdle
    /\ doc \in Entries
    /\ source \in CandidateLists
    /\ excludes \in ExcludeSets
    /\ call = NoCall
    /\ latest = NotResolved
    /\ docs = <<doc>>
    /\ failure = "NotRun"
    /\ GroupIdle

\* One run of a filter leaves r.
Finish(r) ==
    /\ doc' = r.doc
    /\ call' = r.call
    /\ latest' = r.latest
    /\ docs' = Append(docs, r.doc)
    /\ failure' = r.err
    /\ UNCHANGED <<source, excludes>>
    /\ UNCHANGED cmpVars
    /\ UNCHANGED grpVars

RunImageFilter ==
    /\ doc.kind = "image"
    /\ Len(docs) <= MaxRuns
    /\ Finish(UpdateKustomizationImages(doc, source, excludes))

RunChartFilter ==
    /\ doc.kind = "chart"
    /\ Len(docs) <= MaxRuns
    /\ Finish(UpdateK0sctlConfigchart(doc, Repositories, source, excludes))

RunActionFilter ==
    /\ doc.kind = "step"
    /\ Len(docs) <= MaxRuns
    /\ Finish(UpdateGitHubWorkflowStep(doc, source, excludes))

Next == RunImageFilter \/ RunChartFilter \/ RunActionFilter

Spec == Init /\ [][Next]_vars

-----------------------------------------------------------------------------
(* What the last run of a filter asked of its resolver, and what the       *)
(* contract of a resolver makes of it.                                     *)

\* The filter called a resolver.
Resolved == call # NoCall

\* The verdict of Compare on the current version and the i-th candidate.
VerdictOn(i) == Compare(call.cur, call.tags[i], call.opts)

Enumerated == 1..Len(call.tags)

Excluded(i) == call.tags[i] \in call.excludes

\* The i-th candidate is no older than the current version.
Upgrade(i) == VerdictOn(i) \in {Result(Equal, NoError), Result(Greater, NoError)}

Acceptable == {i \in Enumerated : ~Excluded(i) /\ Upgrade(i)}

\* Compare fails on the i-th candidate, which is not excluded.
Failing == {i \in Enumerated : ~Excluded(i) /\ VerdictOn(i).err # NoError}

Last(S) == CHOOSE i \in S : \A k \in S : k <= i

First(S) == CHOOSE i \in S : \A k \in S : i <= k

\* The candidate the contract selects: the last acceptable one, or none.
LastAcceptable == IF Acceptable = {} THEN Empty ELSE call.tags[Last(Acceptable)]

\* The entry before the last run.
Before == docs[Len(docs) - 1]

-----------------------------------------------------------------------------
(* Claims about the resolvers and the filters.                             *)

\* C4: when Compare fails on no candidate that is not excluded, the image and
\* the chart resolver return, with no error, the last candidate of the
\* enumeration that is not excluded and that Compare reports Equal or
\* Greater against the current version, whatever the order of the
\* enumeration is, and the empty string when there is no such candidate.
C4_LastAcceptableInOrder ==
    (call.kind \in {"image", "chart"} /\ Failing = {})
        => latest = Found(LastAcceptable, NoError)

\* The source enumerated the newer version first and the resolver returned
\* the older one, equal to the current version, that it enumerated last.
C4_Witness ==
    /\ call.kind = "chart"
    /\ call.cur = V1
    /\ call.tags = <<V2, V1>>
    /\ call.excludes = {}
    /\ latest = Found(V1, NoError)

C6_ResolversAgree ==
    Resolved =>
        /\ FindLatestTag(call.cur, call.tags, call.excludes, call.opts)
              = FindLatestVersion(call.cur, call.tags, call.excludes, call.opts)
        /\ FindLatestActionTag(call.cur, call.tags, call.excludes, call.opts)
              = FindLatestVersion(call.cur, call.tags, call.excludes, call.opts)

\* The call of Compare that the resolver of the run makes on the i-th
\* candidate.
CallOn(i) ==
    IF call.kind = "action" THEN Compare(call.tags[i], call.cur, call.opts)
    ELSE Compare(call.cur, call.tags[i], call.opts)

FailingCalls == {i \in Enumerated : ~Excluded(i) /\ CallOn(i).err # NoError}

C8_TypeMismatchSkipped ==
    (/\ Resolved
     /\ \A i \in Enumerated : ~Excluded(i) /\ VerdictOn(i).err # NoError
            => VerdictOn(i).err = ErrTypeMismatch)
        => latest.err = NoError

\* C9 as stated: a candidate that is no semantic version, or that the
\* tag-regex does not match, is never selected and never makes the
\* resolution of a valid current version fail.
C9_NonVersionsSkipped ==
    (/\ Resolved
     /\ Type(call.cur, call.opts).err = NoError
     /\ \A i \in Enumerated : ~Excluded(i) /\ VerdictOn(i).err # NoError
            => Type(call.tags[i], call.opts).err # NoError)
        => /\ latest.err = NoError
           /\ latest.tag = Empty \/ Type(latest.tag, call.opts).err = NoError

-----------------------------------------------------------------------------
(* The resolvers that take an update strategy: packages registry, helm and *)
(* github over package utils.                                              *)

\* utils.StrategyType.
StrategyType == {"FullUpdate", "MinorUpdate", "PatchUpdate"}

\* utils.ParseSemver: [ok, v], v being semver.Canonical of the normalized tag.
ParseSemver(v) ==
    LET Of(canon) == IF canon = Empty THEN NotOk ELSE [ok |-> TRUE, v |-> canon]
    IN  Of(SemverCanonical(NormalizePrefix(v)))

\* utils.ParseSemverWithRegex: the version group if it parses, else the
\* version built from the other groups.
ParseSemverWithRegex(re, v) ==
    LET OfRaw(m, canon) ==
            IF m.version # Empty /\ canon.ok THEN canon
            ELSE ParseSemver(Tail(canonicalWithRegex(m)))
        Of(m) == IF ~m.matched THEN NotOk ELSE OfRaw(m, ParseSemver(m.version))
    IN  Of(FindStringSubmatch(re, v))

\* What the update strategy leaves of the current version to hold the tags
\* against: utils.Major, utils.MajorMinor or the whole of it.
StrategyBaseline(updateStrategy, v) ==
    IF updateStrategy = "MinorUpdate" THEN SemverMajor(NormalizePrefix(v))
    ELSE IF updateStrategy = "PatchUpdate" THEN SemverMajorMinor(NormalizePrefix(v))
    ELSE v

\* The switch on the update strategy that ends the loops of the registry and
\* github resolvers: whether the tag becomes bestTag.
WithinStrategy(updateStrategy, v, base) ==
    IF updateStrategy = "MinorUpdate" THEN SemverMajor(NormalizePrefix(v)) = base
    ELSE IF updateStrategy = "PatchUpdate" THEN SemverMajorMinor(NormalizePrefix(v)) = base
    ELSE TRUE

\* registry.FindLatestTag(imageRef, opts...) when ListTags returns tags.
RegistryFindLatestTag(imageTag, tags, o) ==
    LET Keeps(t, sem, base) ==
            /\ sem.ok
            /\ o.includePreRelease \/ SemverPrerelease(NormalizePrefix(sem.v)) = Empty
            /\ t \notin o.exclude
            /\ WithinStrategy(o.updateStrategy, sem.v, base)
        Sem(t) == IF o.transformRegex # NoRule THEN ParseSemverWithRegex(o.transformRegex, t)
                  ELSE ParseSemver(t)
        RECURSIVE Loop(_, _, _)
        Loop(base, rest, bestTag) ==
            IF rest = Empty THEN Found(bestTag, NoError)
            ELSE Loop(base, Tail(rest),
                      IF Keeps(Head(rest), Sem(Head(rest)), base) THEN Head(rest) ELSE bestTag)
        Of(baselineSem) ==
            IF ~baselineSem.ok THEN Found(Empty, ErrBaseline)
            ELSE Loop(StrategyBaseline(o.updateStrategy, baselineSem.v), tags, Empty)
    IN  Of(ParseSemver(imageTag))

\* The helm.FindLatestVersion(chart, opts...) that takes a strategy, when
\* ListVersions returns vers; best is (bestRaw, bestSem).
HelmFindLatestVersion(version, vers, o) ==
    LET Above(x, y) == SemverCompare(NormalizePrefix(x), NormalizePrefix(y)) > 0
        Keeps(v, sem, base, best) ==
            /\ sem.ok
            /\ o.includePreRelease \/ SemverPrerelease(NormalizePrefix(sem.v)) = Empty
            /\ v \notin o.exclude
            /\ Above(sem.v, base)
            /\ WithinStrategy(o.updateStrategy, sem.v, base)
            /\ best.sem = Empty \/ Above(sem.v, best.sem)
        Step(v, sem, base, best) ==
            IF Keeps(v, sem, base, best) THEN [raw |-> v, sem |-> sem.v] ELSE best
        RECURSIVE Loop(_, _, _)
        Loop(base, rest, best) ==
            IF rest = Empty THEN Found(best.raw, NoError)
            ELSE Loop(base, Tail(rest), Step(Head(rest), ParseSemver(Head(rest)), base, best))
        Of(baselineSem) ==
            IF ~baselineSem.ok THEN Found(Empty, ErrBaseline)
            ELSE Loop(StrategyBaseline(o.updateStrategy, baselineSem.v), vers,
                      [raw |-> Empty, sem |-> Empty])
    IN  Of(ParseSemver(version))

\* (*GitHubClient).FindLatestActionTag(ctx, action, opts...) once the limiter
\* has given a token and ListTags has returned tags: the tags are not parsed
\* and there is no exclusion set.
GitHubFindLatestActionTag(version, tags, o) ==
    LET Keeps(t, base) ==
            /\ o.includePreRelease \/ SemverPrerelease(NormalizePrefix(t)) = Empty
            /\ WithinStrategy(o.updateStrategy, t, base)
        RECURSIVE Loop(_, _, _)
        Loop(base, rest, bestTag) ==
            IF rest = Empty THEN Found(bestTag, NoError)
            ELSE Loop(base, Tail(rest), IF Keeps(Head(rest), base) THEN Head(rest) ELSE bestTag)
    IN  Loop(StrategyBaseline(o.updateStrategy, version), tags, Empty)

-----------------------------------------------------------------------------
(* Specification of the strategy-taking resolvers: a reference, its        *)
(* options and a candidate list are drawn and the resolver of the          *)
(* reference's kind is called once.                                        *)

\* Longest candidate list a strategy-taking resolver is given.
MaxTags == 2

\* What a source may enumerate: versions on both sides of a major and of a
\* minor boundary, a prerelease and a tag that is no version.
StrategyTags ==
    {<<"v", "1", ".", "0", ".", "0">>, <<"v", "1", ".", "0", ".", "1">>,
     <<"v", "1", ".", "1", ".", "0">>, <<"v", "2", ".", "0", ".", "0">>,
     <<"v", "2", ".", "0", ".", "0", "-", "r">>, <<"dev">>}

\* ImageRef, ChartRef and GitHubActionRef, each with the options struct its
\* resolver builds: only the registry resolver takes an extraction rule, and
\* the github resolver takes no exclusion set.
StrategyRefs ==
    {r \in [kind : {"registry", "helm", "github"},
            version : StrategyTags \ {<<"v", "2", ".", "0", ".", "0", "-", "r">>},
            options : [updateStrategy : StrategyType, includePreRelease : BOOLEAN,
                       exclude : {{}, {<<"v", "2", ".", "0", ".", "0">>}},
                       transformRegex : {NoRule, VersionRule}]] :
        /\ r.kind # "registry" => r.options.transformRegex = NoRule
        /\ r.kind = "github" => r.options.exclude = {}}

StrategyInit ==
    /\ CompareIdle
    /\ doc \in StrategyRefs
    /\ source \in SeqsUpTo(StrategyTags, MaxTags)
    /\ excludes = doc.options.exclude
    /\ call = NoCall
    /\ latest = NotResolved
    /\ docs = Empty
    /\ failure = "NotRun"
    /\ GroupIdle

\* The resolver returns l.
Returns(l) ==
    /\ latest = NotResolved
    /\ latest' = l
    /\ UNCHANGED <<doc, source, excludes, call, docs, failure>>
    /\ UNCHANGED cmpVars
    /\ UNCHANGED grpVars

CallRegistryFindLatestTag ==
    /\ doc.kind = "registry"
    /\ Returns(RegistryFindLatestTag(doc.version, source, doc.options))

CallHelmFindLatestVersion ==
    /\ doc.kind = "helm"
    /\ Returns(HelmFindLatestVersion(doc.version, source, doc.options))

CallGitHubFindLatestActionTag ==
    /\ doc.kind = "github"
    /\ Returns(GitHubFindLatestActionTag(doc.version, source, doc.options))

StrategyNext ==
    CallRegistryFindLatestTag \/ CallHelmFindLatestVersion \/ CallGitHubFindLatestActionTag

SpecStrategy == StrategyInit /\ [][StrategyNext]_vars

-----------------------------------------------------------------------------
(* Claims about the update strategies.                                     *)

\* The resolver selected a version.
Selected == latest.err = NoError /\ latest.tag # Empty

\* C11: under FullUpdate the selected version is greater than the current
\* one; under MinorUpdate it has the major of the current one; under
\* PatchUpdate it has the major.minor of the current one.
C11_StrategyBounds ==
    Selected =>
        /\ doc.options.updateStrategy = "FullUpdate" =>
               SemverCompare(NormalizePrefix(latest.tag), NormalizePrefix(doc.version)) > 0
        /\ doc.options.updateStrategy = "MinorUpdate" =>
               SemverMajor(NormalizePrefix(latest.tag)) = SemverMajor(NormalizePrefix(doc.version))
        /\ doc.options.updateStrategy = "PatchUpdate" =>
               SemverMajorMinor(NormalizePrefix(latest.tag))
                   = SemverMajorMinor(NormalizePrefix(doc.version))

-----------------------------------------------------------------------------
(* Specification of Type, Canonical and Policy as pure functions: a tag    *)
(* and an extraction rule are drawn and one of the functions is applied;   *)
(* Canonical may then be applied to what it returned.                      *)

\* A tag behind the prefix the extraction rules look for: "release-1.1.1+b"
\* for the rules with component groups, "release-v1.1.1+b" for the rule with
\* a version group.
Prefixed(vs) == <<"release-">> \o Render(vs)

UpdaterInputs == Tags \cup {Prefixed(vs) : vs \in {x \in VersionShapes : x.marker # <<"V">>}}

\* What a call leaves in verdict: the function, its argument, its results.
Applied(fn, in, out) == [fn |-> fn, in |-> in, out |-> out]

UpdaterInit ==
    /\ RunIdle
    /\ baseline \in UpdaterInputs
    /\ opts \in {NoOptions, WithTransform(ReleaseRule), WithTransform(VersionRule),
                 WithTransform(GroupsRule)}
    /\ target = Empty
    /\ verdict = NotCalled

CallType ==
    /\ verdict = NotCalled
    /\ verdict' = Applied("Type", baseline, Type(baseline, opts))
    /\ UNCHANGED <<baseline, target, opts>>
    /\ UNCHANGED runVars

CallCanonical ==
    /\ verdict = NotCalled
    /\ verdict' = Applied("Canonical", baseline, Canonical(baseline, opts))
    /\ UNCHANGED <<baseline, target, opts>>
    /\ UNCHANGED runVars

\* Canonical applied to the version a first call returned.
CallCanonicalAgain ==
    /\ verdict # NotCalled
    /\ verdict.fn = "Canonical"
    /\ verdict.in = baseline
    /\ target = Empty
    /\ verdict.out.err = NoError
    /\ target' = verdict.out.v
    /\ verdict' = Applied("Canonical", verdict.out.v, Canonical(verdict.out.v, opts))
    /\ UNCHANGED <<baseline, opts>>
    /\ UNCHANGED runVars

CallPolicy ==
    /\ verdict = NotCalled
    /\ verdict' = Applied("Policy", baseline, Policy(baseline))
    /\ UNCHANGED <<baseline, target, opts>>
    /\ UNCHANGED runVars

UpdaterNext == CallType \/ CallCanonical \/ CallCanonicalAgain \/ CallPolicy

SpecUpdater == UpdaterInit /\ [][UpdaterNext]_vars

-----------------------------------------------------------------------------
(* Claims about Type, Canonical and Policy.                                *)

\* fn has been applied to the tag drawn, under the extraction rule re.
Did(fn, re) ==
    /\ verdict # NotCalled
    /\ verdict.fn = fn
    /\ target = Empty
    /\ opts.transformRegex = re

\* The shapes whose rendering, behind the prefix, the rule re matches and
\* reads the components of.
ShapesOf(re) ==
    {vs \in VersionShapes :
        /\ vs.marker = (IF re = VersionRule THEN <<"v">> ELSE Empty)
        /\ re = ReleaseRule => vs.suffix = Empty}

\* C12: Type classifies by the components present, a prerelease or build
\* before a patch, a patch before a minor, a minor before a bare major, for
\* plain tags and for tags whose components an extraction rule extracts.
C12_TypeByComponents ==
    /\ (Did("Type", NoRule) /\ baseline \in ValidTags)
           => verdict.out = [t |-> ShapeType(ShapeOf[baseline]), err |-> NoError]
    /\ \A re \in {ReleaseRule, VersionRule, GroupsRule} : \A vs \in ShapesOf(re) :
           (Did("Type", re) /\ baseline = Prefixed(vs))
               => verdict.out = [t |-> ShapeType(vs), err |-> NoError]

\* Canonical has been applied to the version a first call returned, with the
\* options of the first call.
DidAgain == verdict # NotCalled /\ verdict.fn = "Canonical" /\ target # Empty

\* C13: canonicalization is idempotent: Canonical applied to a version that
\* Canonical returned gives that version back, with no error.
C13_CanonicalIdempotent ==
    (DidAgain /\ opts = NoOptions) => verdict.out = [v |-> target, err |-> NoError]

\* A version with an upper-case marker has been canonicalized twice.
C13_Witness ==
    /\ DidAgain
    /\ opts = NoOptions
    /\ baseline = <<"V", "1", ".", "1">>
    /\ target = <<"v", "1", ".", "1">>
    /\ verdict.out.v = <<"v", "1", ".", "1">>

\* C14: Canonical fails when an extraction rule is given and does not match
\* the tag, fails when the extracted, marker-normalized string is not
\* syntactically a version, and returns a value only for a valid version.
C14_CanonicalValidates ==
    \A re \in {NoRule, ReleaseRule, VersionRule, GroupsRule} :
        Did("Canonical", re) =>
            /\ (re # NoRule /\ ~FindStringSubmatch(re, baseline).matched)
                   => verdict.out.err # NoError
            /\ verdict.out.err = NoError => SemverIsValid(verdict.out.v)

\* The version assembled from the components of a shape, an absent minor or
\* patch being 0.
Assembled(vs) ==
    Render([marker |-> <<"v">>, major |-> vs.major, minor |-> NumOf(vs.minor),
            patch |-> NumOf(vs.patch), suffix |-> vs.suffix])

DidPolicy ==
    /\ verdict # NotCalled
    /\ verdict.fn = "Policy"
    /\ baseline \in ValidTags
    /\ ShapeOf[baseline].marker # <<"V">>

\* C16: the release class depends on the major, minor and patch integers
\* only, a missing minor or patch being 0: MajorRelease when major > 0,
\* MinorRelease when major = 0 and minor > 0, PatchRelease when major = 0,
\* minor = 0 and patch > 0.
C16_PolicyByIntegers ==
    LET Class(vs) ==
            /\ vs.major > 0 => verdict.out = [p |-> MajorRelease, err |-> NoError]
            /\ (vs.major = 0 /\ NumOf(vs.minor) > 0)
                   => verdict.out = [p |-> MinorRelease, err |-> NoError]
            /\ (vs.major = 0 /\ NumOf(vs.minor) = 0 /\ NumOf(vs.patch) > 0)
                   => verdict.out = [p |-> PathRelease, err |-> NoError]
    IN  DidPolicy => Class(ShapeOf[baseline])

\* A version below 0.1 has been classified as a patch release.
C16_Witness ==
    /\ DidPolicy
    /\ baseline = <<"v", "0", ".", "0", ".", "1">>
    /\ verdict.out = [p |-> PathRelease, err |-> NoError]

-----------------------------------------------------------------------------
(* Specification of Compare under a release-class gate: a baseline and a   *)
(* gate are drawn and Compare is applied to the baseline and a target.     *)

GateInit ==
    /\ RunIdle
    /\ baseline \in {t \in ValidTags :
                        ShapeOf[t].marker = <<"v">> /\ ShapeOf[t].major # WideMajor}
    /\ opts \in {WithPolicy(ut) : ut \in {MajorRelease, MinorRelease, PathRelease}}
    /\ target = Empty
    /\ verdict = NotCalled

SpecGate == GateInit /\ [][CompareNext]_vars

\* The release class of a shape, read off its integers; a version with no
\* positive component is a major release, as Policy has it.
ShapeClass(vs) ==
    IF vs.major = 0 /\ NumOf(vs.minor) = 0 /\ NumOf(vs.patch) > 0 THEN PathRelease
    ELSE IF vs.major = 0 /\ NumOf(vs.minor) > 0 THEN MinorRelease
    ELSE MajorRelease

\* Compare has been called under a gate on two valid versions of one type,
\* the target being the newer.
GatedUpgrade ==
    /\ Called
    /\ opts.policy # NoPolicy
    /\ BothValid
    /\ ShapeType(ShapeOf[baseline]) = ShapeType(ShapeOf[target])
    /\ ShapeOlder(ShapeOf[baseline], ShapeOf[target])

\* C17: under a release-class gate, for a target newer than the baseline,
\* Compare returns Greater when the release class of the baseline is the
\* configured one, and otherwise returns Equal with no error.
C17_GateReportsEqual ==
    GatedUpgrade =>
        verdict = IF ShapeClass(ShapeOf[baseline]) = opts.policy
                  THEN Result(Greater, NoError)
                  ELSE Result(Equal, NoError)

-----------------------------------------------------------------------------
(* Claims about the filters of one entry.                                  *)

\* A filter has run on an entry of the kind.
RanOn(kind) == Len(docs) >= 2 /\ doc.kind = kind

\* The resolver returned a version, or the empty string, and no error.
Answered == Resolved /\ latest.err = NoError

\* C18: a workflow step whose uses is owner/repo@version gets
\* owner/repo@L, with its owner and repo, when the resolver returns a
\* non-empty L, and keeps its uses when the resolver returns the empty
\* string; a step without uses is left as it is, with no uses added.
C18_StepUsesRewritten ==
    RanOn("step") =>
        /\ (Answered /\ latest.tag # Empty)
               => doc = [Before EXCEPT
                            !.uses = Take(Before.uses, IndexOf(Before.uses, "@")) \o latest.tag]
        /\ (Answered /\ latest.tag = Empty) => doc = Before
        /\ Before.uses = NoField => (doc = Before /\ ~Resolved)

\* The step actions/checkout@1 has become actions/checkout@v1.
C18_Witness ==
    /\ RanOn("step")
    /\ Answered
    /\ Before.uses = <<"actions", "/", "checkout", "@", "1">>
    /\ latest.tag = V1
    /\ doc.uses = <<"actions", "/", "checkout", "@", "v", "1">>

\* The repository name of the chart entry before the run: the text before
\* the first "/" of its chartname, if there is one.
RepoNamed ==
    IF IndexOf(Before.chartname, "/") = 0 THEN Empty
    ELSE Take(Before.chartname, IndexOf(Before.chartname, "/") - 1)

\* The repository of the chart entry is known and its URL holds "://".
RepoResolves ==
    /\ RepoNamed \in DOMAIN Repositories
    /\ IndexOf(Repositories[RepoNamed], "https://charts") # 0

\* C19: for a chart entry with chartname repoName/chartName whose repository
\* resolves to a URL holding "://", the version becomes the non-empty result
\* of the resolver and stays when the result is empty; when the repository
\* is unknown or its URL is empty or invalid, the filter returns an error,
\* does not call the resolver and leaves the version as it was.
C19_ChartVersionRewritten ==
    RanOn("chart") =>
        /\ RepoResolves =>
               /\ Resolved
               /\ (Answered /\ latest.tag # Empty)
                      => (doc = [Before EXCEPT !.version = latest.tag] /\ failure = NoError)
               /\ (Answered /\ latest.tag = Empty) => (doc = Before /\ failure = NoError)
        /\ ~RepoResolves => (failure # NoError /\ ~Resolved /\ doc = Before)

\* The version of a chart of a known repository has been rewritten.
C19_Witness ==
    /\ RanOn("chart")
    /\ RepoResolves
    /\ Before.version = V1
    /\ latest = Found(V2, NoError)
    /\ doc.version = V2

-----------------------------------------------------------------------------
(* The chart filter of a whole k0sctl configuration, and its               *)
(* specification: a configuration with its repository list and two chart   *)
(* entries, or no charts list, is drawn and the filter runs on it again    *)
(* and again.                                                              *)

\* The map UpdateK0sctlConfig builds from the repositories list: the
\* entries with a name and a URL, a later entry replacing an earlier one.
ReposOf(list) ==
    LET Kept == {i \in 1..Len(list) : list[i].name # Empty /\ list[i].url # Empty}
    IN  [n \in {list[i].name : i \in Kept} |->
            list[CHOOSE i \in Kept : list[i].name = n
                                     /\ \A k \in Kept : list[k].name = n => k <= i].url]

\* UpdateK0sctlConfig stopping at the first chart entry that fails and
\* returning its error.
UpdateK0sctlConfigFailingFast(config, vers, excl) ==
    LET Runs(repos) ==
            [i \in 1..Len(config.charts) |->
                UpdateK0sctlConfigchart(config.charts[i], repos, vers, excl)]
        Stop(runs, bad) ==
            IF bad = {} THEN Ran([config EXCEPT !.charts = [i \in DOMAIN runs |-> runs[i].doc]],
                                 NoError, [kind |-> "charts"], runs)
            ELSE Ran([config EXCEPT !.charts =
                         [i \in DOMAIN runs |-> IF \E k \in bad : k <= i THEN config.charts[i]
                                                ELSE runs[i].doc]],
                     ErrChart, [kind |-> "charts"], runs)
        Of(runs) == Stop(runs, {i \in DOMAIN runs : runs[i].err # NoError})
    IN  IF config.charts = NoField THEN Ran(config, NoError, NoCall, NotResolved)
        ELSE Of(Runs(ReposOf(config.repositories)))

\* UpdateK0sctlConfig with helm.Updater{excl}: every element of the charts
\* list goes through UpdateK0sctlConfigchart in a task of its own, on its own
\* node; a task logs the error of its entry and returns nil, and the filter
\* returns after the last task.  latest holds the run of each entry.
UpdateK0sctlConfig(config, vers, excl) ==
    LET Runs(repos) ==
            [i \in 1..Len(config.charts) |->
                UpdateK0sctlConfigchart(config.charts[i], repos, vers, excl)]
        Of(runs) ==
            Ran([config EXCEPT !.charts = [i \in DOMAIN runs |-> runs[i].doc]],
                NoError, [kind |-> "charts"], runs)
    IN  IF config.charts = NoField THEN Ran(config, NoError, NoCall, NotResolved)
        ELSE Of(Runs(ReposOf(config.repositories)))

\* The chart entries of a configuration: of a repository with a URL, with a
\* version or none; of repositories that do not resolve; with no repository
\* in the chartname; with no chartname.
ConfigCharts ==
    {c \in ChartEntries : c.version \in {V1, Empty}}
        \cup {[kind |-> "chart", chartname |-> Empty, version |-> V1]}

ConfigEntries ==
    {[kind |-> "config",
      repositories |-> <<[name |-> <<"stable">>, url |-> <<"https://charts">>],
                         [name |-> <<"local">>, url |-> <<"charts">>],
                         [name |-> <<"blank">>, url |-> Empty]>>,
      charts |-> cs] :
        cs \in {<<a, b>> : a \in ConfigCharts, b \in ConfigCharts} \cup {NoField}}

ConfigInit ==
    /\ CompareIdle
    /\ doc \in ConfigEntries
    /\ source \in SeqsUpTo(CandidateTags, MaxTags)
    /\ excludes \in ExcludeSets
    /\ call = NoCall
    /\ latest = NotResolved
    /\ docs = <<doc>>
    /\ failure = "NotRun"
    /\ GroupIdle

RunConfigFilter ==
    /\ doc.kind = "config"
    /\ Len(docs) <= MaxRuns
    /\ Finish(UpdateK0sctlConfig(doc, source, excludes))

SpecConfig == ConfigInit /\ [][RunConfigFilter]_vars

\* The i-th chart entry before the run names a repository of the list that
\* has a URL holding "://".
WellFormed(i) ==
    \E j \in 1..Len(Before.repositories) :
        /\ IndexOf(Before.charts[i].chartname, "/") # 0
        /\ Before.repositories[j].name
               = Take(Before.charts[i].chartname, IndexOf(Before.charts[i].chartname, "/") - 1)
        /\ IndexOf(Before.repositories[j].url, "https://charts") # 0

-----------------------------------------------------------------------------
(* The action filter of a whole workflow, and its specification: a         *)
(* workflow with two jobs of two steps each, or with no jobs, is drawn and *)
(* the filter runs on it again and again.                                  *)

\* UpdateGitHubWorkflowJob: the steps of the job go through
\* UpdateGitHubWorkflowStep in their order, each on its own node; the first
\* step that returns an error ends the loop and the job returns that error
\* wrapped, with the steps before it rewritten.  latest holds the run of
\* each step the loop reached.
UpdateGitHubWorkflowJob(job, tags, excl) ==
    LET RECURSIVE Loop(_, _)
        Loop(i, runs) ==
            IF i > Len(job.steps) THEN runs
            ELSE LET Step(r) == IF r.err # NoError THEN Append(runs, r)
                                ELSE Loop(i + 1, Append(runs, r))
                 IN  Step(UpdateGitHubWorkflowStep(job.steps[i], tags, excl))
        Of(runs) ==
            Ran([job EXCEPT !.steps = [i \in DOMAIN job.steps |->
                                          IF i <= Len(runs) THEN runs[i].doc ELSE job.steps[i]]],
                IF runs = Empty THEN NoError ELSE runs[Len(runs)].err,
                [kind |-> "steps"], runs)
    IN  IF job.steps = NoField THEN Ran(job, NoError, NoCall, NotResolved)
        ELSE Of(Loop(1, Empty))

\* UpdateGitHubWorkflowAction: the jobs of the workflow go through
\* UpdateGitHubWorkflowJob in the order of the jobs mapping; the error of a
\* job is logged and the loop goes on; the filter returns no error.  latest
\* holds the run of each job.
UpdateGitHubWorkflowAction(workflow, tags, excl) ==
    LET Of(runs) ==
            Ran([workflow EXCEPT !.jobs = [j \in DOMAIN runs |-> runs[j].doc]],
                NoError, [kind |-> "jobs"], runs)
    IN  IF workflow.jobs = NoField THEN Ran(workflow, NoError, NoCall, NotResolved)
        ELSE Of([j \in 1..Len(workflow.jobs) |->
                    UpdateGitHubWorkflowJob(workflow.jobs[j], tags, excl)])

\* The steps of a workflow: one that uses an action at a version, one that
\* uses a local path, one that uses a path below a repository, and one that
\* runs a command.
WorkflowSteps ==
    {[kind |-> "step", name |-> "checkout", uses |-> u] :
        u \in {<<"actions", "/", "checkout", "@">> \o V2,
               <<".", "/", "local">>,
               <<"actions", "/", "cache", "/", "save", "@">> \o V2,
               NoField}}

WorkflowEntries ==
    {[kind |-> "workflow", jobs |-> js] :
        js \in {<<[name |-> "build", steps |-> a], [name |-> "test", steps |-> b]>> :
                   a \in [1..2 -> WorkflowSteps] \cup {NoField},
                   b \in [1..2 -> WorkflowSteps] \cup {NoField}}
               \cup {NoField}}

WorkflowInit ==
    /\ CompareIdle
    /\ doc \in WorkflowEntries
    /\ source \in SeqsUpTo(CandidateTags, MaxTags)
    /\ excludes \in ExcludeSets
    /\ call = NoCall
    /\ latest = NotResolved
    /\ docs = <<doc>>
    /\ failure = "NotRun"
    /\ GroupIdle

RunWorkflowFilter ==
    /\ doc.kind = "workflow"
    /\ Len(docs) <= MaxRuns
    /\ Finish(UpdateGitHubWorkflowAction(doc, source, excludes))

SpecWorkflow == WorkflowInit /\ [][RunWorkflowFilter]_vars

\* The steps of the workflow before the run, as (job, step) positions.
StepsBefore ==
    IF Before.jobs = NoField THEN {}
    ELSE {p \in (DOMAIN Before.jobs) \X (1..2) : Before.jobs[p[1]].steps # NoField}

\* What UpdateGitHubWorkflowStep makes of the step at a position when it
\* runs on it.
StepAlone(p) == UpdateGitHubWorkflowStep(Before.jobs[p[1]].steps[p[2]], source, excludes)

\* C21: a step whose processing fails is passed over alone: after the
\* workflow filter has run, every step of every job of the document is what
\* the step filter makes of it, whatever became of the steps before it.
C21_StepFailuresIsolated ==
    RanOn("workflow") =>
        \A p \in StepsBefore : doc.jobs[p[1]].steps[p[2]] = StepAlone(p).doc

-----------------------------------------------------------------------------
(* The recommended-label filter of a kustomization, and its                *)
(* specification: a kustomization with an images annotation, a labels      *)
(* block and an images list is drawn and the filter runs on it again and   *)
(* again.  A YAML node is written with its kind: the labels block is       *)
(* missing, or a mapping where a list is read, or a sequence of elements   *)
(* whose pairs are a mapping or missing; the annotation is the list of    *)
(* image configurations read from it, empty when there is no annotation.  *)

\* utils.NormalizeSemverWithRegex(re, v) for a rule that is not nil: the
\* version extracted from the tag by the rule, in canonical form, or an
\* error when the rule does not match the tag.
NormalizeSemverWithRegex(re, v) == ParseSemverWithRegex(re, v)

ErrLabels == "ErrLabels"

\* RecommandedLabelsSetter overwriting the labels that are there and adding
\* none.
SetRecommandedLabelsWhereSet(node, name, version) ==
    [node EXCEPT !.labels.content =
        [i \in DOMAIN node.labels.content |->
            IF node.labels.content[i].pairs.kind = "missing" THEN node.labels.content[i]
            ELSE [node.labels.content[i] EXCEPT
                     !.pairs.name = IF @ = NoField THEN @ ELSE name,
                     !.pairs.version = IF @ = NoField THEN @ ELSE version]]]

\* RecommandedLabelsSetter writing the name label alone.
SetRecommandedLabelsNameOnly(node, name, version) ==
    [node EXCEPT !.labels.content =
        [i \in DOMAIN node.labels.content |->
            IF node.labels.content[i].pairs.kind = "missing" THEN node.labels.content[i]
            ELSE [node.labels.content[i] EXCEPT !.pairs.name = name]]]

\* RecommandedLabelsSetter{name, version}.Filter on a kustomization whose
\* labels are a sequence: both labels are set in the pairs of every element
\* that has pairs.
SetRecommandedLabels(node, name, version) ==
    [node EXCEPT !.labels.content =
        [i \in DOMAIN node.labels.content |->
            IF node.labels.content[i].pairs.kind = "missing" THEN node.labels.content[i]
            ELSE [node.labels.content[i] EXCEPT !.pairs.name = name,
                                                !.pairs.version = version]]]

\* UpdateKustomizationLabelsNode: for every element of the labels list, in
\* order, the name label is read from the document as it is by then, and
\* every images entry that the annotation configures, that has that name
\* and a newTag, has its name and the version of its newTag written by the
\* setter.  An error returns at once, with what has been written before.
UpdateKustomizationLabelsNode(node) ==
    LET Configured(name) ==
            {i \in DOMAIN node.annotation : node.annotation[i].name = name}
        Cfg(name) == node.annotation[Last(Configured(name))]
        Pair(pairs) ==
            IF pairs.kind = "missing" \/ pairs.name = NoField THEN Empty ELSE pairs.name
        RECURSIVE Loop(_, _, _)
        Loop(n, l, i) ==
            IF l > Len(n.labels.content) THEN Ran(n, NoError, [kind |-> "labels"], NotResolved)
            ELSE IF i > Len(n.images) THEN Loop(n, l + 1, 1)
            ELSE LET Write(vers) ==
                         IF ~vers.ok THEN Ran(n, ErrNoMatch, [kind |-> "labels"], NotResolved)
                         ELSE Loop(SetRecommandedLabels(n, n.images[i].name, vers.v), l, i + 1)
                     Of(img, pair) ==
                         IF Configured(img.name) = {} \/ pair # img.name \/ img.newTag = Empty
                         THEN Loop(n, l, i + 1)
                         ELSE IF Cfg(img.name).tagRegex # NoRule
                         THEN Write(NormalizeSemverWithRegex(Cfg(img.name).tagRegex, img.newTag))
                         ELSE Write([ok |-> TRUE, v |-> Empty])
                 IN  Of(n.images[i], Pair(n.labels.content[l].pairs))
    IN  IF node.labels.kind = "missing" THEN Ran(node, NoError, [kind |-> "labels"], NotResolved)
        ELSE IF node.labels.kind # "sequence"
        THEN Ran(node, ErrLabels, [kind |-> "labels"], NotResolved)
        ELSE Loop(node, 1, 1)

\* The elements of a labels list: with the name and version labels, with a
\* name label alone, with the name of another application, with no pairs.
LabelElements ==
    {[pairs |-> p] :
        p \in {[kind |-> "mapping", name |-> <<"app">>, version |-> <<"old">>],
               [kind |-> "mapping", name |-> <<"app">>, version |-> NoField],
               [kind |-> "mapping", name |-> <<"web">>, version |-> <<"old">>],
               [kind |-> "missing"]}}

LabelsInit ==
    /\ CompareIdle
    /\ \E re \in {NoRule, ReleaseRule, VersionRule},
          tag \in {<<"release-", "1", ".", "0", ".", "1">>, <<"v", "1", ".", "1">>, <<"dev">>, Empty},
          ls \in {[kind |-> "sequence", content |-> c] : c \in SeqsUpTo(LabelElements, 2)}
                     \cup {[kind |-> "missing"], [kind |-> "mapping"]},
          an \in BOOLEAN :
        doc = [kind |-> "kustomization",
               annotation |-> IF an THEN <<[name |-> <<"app">>, tagRegex |-> re]>> ELSE Empty,
               labels |-> ls,
               images |-> <<[name |-> <<"app">>, newName |-> <<"repo/app">>, newTag |-> tag],
                            [name |-> <<"web">>, newName |-> <<"repo/web">>, newTag |-> V1]>>]
    /\ source = Empty
    /\ excludes = {}
    /\ call = NoCall
    /\ latest = NotResolved
    /\ docs = <<doc>>
    /\ failure = "NotRun"
    /\ GroupIdle

RunLabelsFilter ==
    /\ doc.kind = "kustomization"
    /\ Len(docs) <= MaxRuns
    /\ Finish(UpdateKustomizationLabelsNode(doc))

SpecLabels == LabelsInit /\ [][RunLabelsFilter]_vars

\* The images entry the annotation configures, before the run, and its
\* configuration.
ManagedImage == Before.images[1]

ManagedRule == IF Before.annotation = Empty THEN NoRule ELSE Before.annotation[1].tagRegex

\* A labels list is there and the name label of one of its elements names
\* the managed image, which has a newTag.
NamedByLabel ==
    /\ Before.labels.kind = "sequence"
    /\ Before.annotation # Empty
    /\ ManagedImage.newTag # Empty
    /\ \E l \in DOMAIN Before.labels.content :
           /\ Before.labels.content[l].pairs.kind = "mapping"
           /\ Before.labels.content[l].pairs.name = ManagedImage.name

\* The image has a tag-regex and the rule matches its newTag.
Canonicalizable ==
    /\ ManagedRule # NoRule
    /\ FindStringSubmatch(ManagedRule, ManagedImage.newTag).matched

\* C22: after the recommended-label filter has run on a kustomization whose
\* name label names a managed image with a tag-regex that matches its
\* newTag, the filter has returned no error and, in every labels element
\* with pairs, the version label is the canonical form of the version the
\* rule extracts from the newTag and the name label is the image name.
C22_LabelsMirrorVersion ==
    (RanOn("kustomization") /\ NamedByLabel /\ Canonicalizable) =>
        /\ failure = NoError
        /\ \A l \in DOMAIN doc.labels.content :
               doc.labels.content[l].pairs.kind = "mapping" =>
                   /\ doc.labels.content[l].pairs.name = ManagedImage.name
                   /\ doc.labels.content[l].pairs.version
                          = SemverCanonical(Canonical(ManagedImage.newTag,
                                                      WithTransform(ManagedRule)).v)

\* The image app with newTag release-1.0.1 and a rule with major, minor and
\* patch groups has given the version label v1.0.1 in place of old.
C22_Witness ==
    /\ RanOn("kustomization")
    /\ NamedByLabel
    /\ ManagedRule = ReleaseRule
    /\ ManagedImage.newTag = <<"release-", "1", ".", "0", ".", "1">>
    /\ Before.labels.content[1].pairs = [kind |-> "mapping", name |-> <<"app">>, version |-> <<"old">>]
    /\ doc.labels.content[1].pairs
           = [kind |-> "mapping", name |-> <<"app">>, version |-> <<"v", "1", ".", "0", ".", "1">>]

\* C23: the label filter returns no error and leaves the document as it was
\* when the labels block is missing or is not a list, and when the name
\* label names the managed image but its newTag cannot be canonicalized,
\* there being no tag-regex or the rule not matching the tag.
C23_LabelsBestEffort ==
    RanOn("kustomization") =>
        /\ Before.labels.kind # "sequence" => (failure = NoError /\ doc = Before)
        /\ (NamedByLabel /\ ~Canonicalizable) => (failure = NoError /\ doc = Before)

-----------------------------------------------------------------------------
(* The k0sctl pipeline as goroutines.  UpdateK0sctlConfigs(ctx, u,         *)
(* path).Execute() reads the configurations under the path, runs the       *)
(* filter UpdateK0sctlConfigsCharts on them and writes them back when the  *)
(* filter has returned no error.  The filter starts one task per           *)
(* configuration in an errgroup and waits; the task of a configuration     *)
(* starts one task per chart entry in an errgroup of its own and waits.    *)
(* Wait returns the first error a task of the group returned.  What the    *)
(* resolver answers is an input drawn when the call returns.               *)

\* Configurations under the path.
MaxFiles == 2

\* Chart entries of a configuration.
MaxCharts == 2

\* The task of configuration f in the group of the filter is <<f, 0>>; the
\* task of its chart entry c in the group of UpdateK0sctlConfig is <<f, c>>.
PipelineTasks == (1..MaxFiles) \X (0..MaxCharts)

ChartTasks(f) == {f} \X (1..MaxCharts)

\* A task: where it is and how it ended.
Task(pc, out) == [pc |-> pc, out |-> out]

\* Every task of the set has returned.
AllDone(S) == \A t \in S : tasks[t].pc = "done"

PipelineInit ==
    /\ CompareIdle
    /\ doc \in {[kind |-> "package", files |-> fs] :
                   fs \in [1..MaxFiles -> {"config", "malformed"}]}
    /\ source = Empty
    /\ excludes = {}
    /\ call = NoCall
    /\ latest = NotResolved
    /\ docs = <<doc>>
    /\ failure = "NotRun"
    /\ tasks = [t \in PipelineTasks |-> Task("none", "none")]
    /\ main = [pc |-> "execute", err |-> Empty, written |-> {}]
    /\ ctx = "live"
    /\ limiter = 0

\* Pipeline.Execute up to g.Wait of the filter: the inputs are read and one
\* task is started for each configuration.
Execute ==
    /\ main.pc = "execute"
    /\ main' = [main EXCEPT !.pc = "wait"]
    /\ tasks' = [t \in PipelineTasks |-> IF t[2] = 0 THEN Task("start", "none") ELSE tasks[t]]
    /\ UNCHANGED <<doc, source, excludes, call, latest, docs, failure, ctx, limiter>>
    /\ UNCHANGED cmpVars

\* The task of a configuration up to its g.Wait: a configuration whose
\* charts are no list makes the task return the error, which the group
\* keeps if it is the first; the task of any other starts one task per
\* chart entry.
GoUpdateK0sctlConfig(f) ==
    /\ tasks[<<f, 0>>].pc = "start"
    /\ IF doc.files[f] = "malformed"
       THEN /\ tasks' = [tasks EXCEPT ![<<f, 0>>] = Task("done", "failed")]
            /\ main' = [main EXCEPT !.err = IF @ = Empty THEN <<f>> ELSE @]
       ELSE /\ tasks' = [t \in PipelineTasks |->
                            IF t \in ChartTasks(f) THEN Task("start", "none")
                            ELSE IF t = <<f, 0>> THEN Task("wait", "none")
                            ELSE tasks[t]]
            /\ UNCHANGED main
    /\ UNCHANGED <<doc, source, excludes, call, latest, docs, failure, ctx, limiter>>
    /\ UNCHANGED cmpVars

\* The task of a chart entry up to the call of the updater:
\* UpdateK0sctlConfigchart has read the chartname and the version of its
\* node.
GoUpdateK0sctlConfigchart(f, c) ==
    /\ tasks[<<f, c>>].pc = "start"
    /\ tasks' = [tasks EXCEPT ![<<f, c>>] = Task("resolving", "none")]
    /\ UNCHANGED <<doc, source, excludes, call, latest, docs, failure, main, ctx, limiter>>
    /\ UNCHANGED cmpVars

\* The updater returns to the task of a chart entry: a version, which the
\* task writes into its node, or an error, the error of the context when it
\* is canceled, which the task logs; the task returns nil.
UpdateReturns(f, c) ==
    /\ tasks[<<f, c>>].pc = "resolving"
    /\ \E out \in IF ctx = "canceled" THEN {"canceled"} ELSE {"written", "logged"} :
           tasks' = [tasks EXCEPT ![<<f, c>>] = Task("done", out)]
    /\ UNCHANGED <<doc, source, excludes, call, latest, docs, failure, main, ctx, limiter>>
    /\ UNCHANGED cmpVars

\* g.Wait of UpdateK0sctlConfig returns, nil as every task of its group
\* does, and the task of the configuration returns nil.
WaitCharts(f) ==
    /\ tasks[<<f, 0>>].pc = "wait"
    /\ AllDone(ChartTasks(f))
    /\ tasks' = [tasks EXCEPT ![<<f, 0>>] = Task("done", "nil")]
    /\ UNCHANGED <<doc, source, excludes, call, latest, docs, failure, main, ctx, limiter>>
    /\ UNCHANGED cmpVars

\* g.Wait of the filter returns the first error of its group, and Execute
\* with it: the error, or nil after it has written every configuration.
WaitConfigs ==
    /\ main.pc = "wait"
    /\ AllDone((1..MaxFiles) \X {0})
    /\ main' = IF main.err = Empty
               THEN [main EXCEPT !.pc = "returned", !.written = 1..MaxFiles]
               ELSE [main EXCEPT !.pc = "returned"]
    /\ UNCHANGED <<doc, source, excludes, call, latest, docs, failure, tasks, ctx, limiter>>
    /\ UNCHANGED cmpVars

\* The caller cancels the context while the pipeline runs.
Cancel ==
    /\ ctx = "live"
    /\ main.pc # "returned"
    /\ ctx' = "canceled"
    /\ UNCHANGED <<doc, source, excludes, call, latest, docs, failure, tasks, main, limiter>>
    /\ UNCHANGED cmpVars

PipelineNext ==
    \/ Execute
    \/ \E f \in 1..MaxFiles : GoUpdateK0sctlConfig(f) \/ WaitCharts(f)
    \/ \E f \in 1..MaxFiles, c \in 1..MaxCharts :
           GoUpdateK0sctlConfigchart(f, c) \/ UpdateReturns(f, c)
    \/ WaitConfigs
    \/ Cancel

SpecPipeline == PipelineInit /\ [][PipelineNext]_vars

\* C24: the nodes of one document are worked on by one task at a time: no
\* two tasks are at once between reading their node of the same
\* configuration and writing it.
C24_DocumentTasksSequential ==
    \A f \in 1..MaxFiles :
        Cardinality({t \in ChartTasks(f) : tasks[t].pc = "resolving"}) <= 1

\* Execute has returned.
Returned == main.pc = "returned"

\* The configurations whose task returned an error.
FailedFiles == {f \in 1..MaxFiles : tasks[<<f, 0>>].out = "failed"}

\* C25: when the pipeline has returned, every configuration whose own
\* processing did not fail has had each of its chart entries processed to
\* the end and has been written back, whatever became of the other
\* configurations.
C25_SiblingFilesSurvive ==
    Returned =>
        \A f \in (1..MaxFiles) \ FailedFiles :
            /\ AllDone(ChartTasks(f))
            /\ f \in main.written

\* C26: when the pipeline has returned, the error it returned names every
\* task of the group that returned an error.
C26_GroupReportsEveryError ==
    Returned => {main.err[i] : i \in DOMAIN main.err} = FailedFiles

\* C28: when a resolution of the run has ended with the error of the
\* canceled context, the pipeline returns an error and writes nothing.
C28_CancellationPropagates ==
    (Returned /\ \E t \in PipelineTasks : tasks[t].out = "canceled") =>
        (main.err # Empty /\ main.written = {})

-----------------------------------------------------------------------------
(* The command "update all DIR..." as goroutines.  RunE goes through its   *)
(* arguments; for a root that is not blank it starts, in one errgroup, one *)
(* task per update operation on that root, and returns what g.Wait         *)
(* returns.                                                                *)

\* Arguments of the command.
MaxRoots == 2

\* The update operations started on a root, in the order of the g.Go calls.
Operations == <<"kustomization", "sops", "k0sctl", "workflows", "script">>

\* The task of operation p on the i-th argument is <<i, p>>.
AllTasks == (1..MaxRoots) \X (1..Len(Operations))

AllInit ==
    /\ CompareIdle
    /\ doc \in {[kind |-> "args", roots |-> rs] :
                   rs \in SeqsUpTo({Empty, <<" ">>, <<"a">>, <<"b">>}, MaxRoots) \ {Empty}}
    /\ source = Empty
    /\ excludes = {}
    /\ call = NoCall
    /\ latest = NotResolved
    /\ docs = <<doc>>
    /\ failure = "NotRun"
    /\ tasks = [t \in AllTasks |-> Task("none", "none")]
    /\ main = [pc |-> "loop", i |-> 1, err |-> Empty]
    /\ ctx = "live"
    /\ limiter = 0

\* One turn of the loop over the arguments: a blank argument is passed
\* over; for any other the five tasks are started and the function goes to
\* the g.Wait it returns.  After the last argument the function goes to the
\* g.Wait that follows the loop.
RangeArgs ==
    /\ main.pc = "loop"
    /\ IF main.i > Len(doc.roots)
       THEN main' = [main EXCEPT !.pc = "wait"] /\ UNCHANGED tasks
       ELSE IF doc.roots[main.i] \in {Empty, <<" ">>}
       THEN main' = [main EXCEPT !.i = @ + 1] /\ UNCHANGED tasks
       ELSE /\ main' = [main EXCEPT !.pc = "wait"]
            /\ tasks' = [t \in AllTasks |->
                            IF t[1] = main.i THEN Task("start", "none") ELSE tasks[t]]
    /\ UNCHANGED <<doc, source, excludes, call, latest, docs, failure, ctx, limiter>>
    /\ UNCHANGED cmpVars

\* A task runs its operation on its root and returns nil or an error, which
\* the group keeps if it is the first.
RunOperation(t) ==
    /\ tasks[t].pc = "start"
    /\ \E out \in {"nil", "failed"} :
           /\ tasks' = [tasks EXCEPT ![t] = Task("done", out)]
           /\ main' = IF out = "failed" /\ main.err = Empty
                      THEN [main EXCEPT !.err = <<t>>] ELSE main
    /\ UNCHANGED <<doc, source, excludes, call, latest, docs, failure, ctx, limiter>>
    /\ UNCHANGED cmpVars

\* g.Wait returns when every task started has returned, and RunE with it.
WaitAll ==
    /\ main.pc = "wait"
    /\ \A t \in AllTasks : tasks[t].pc \in {"none", "done"}
    /\ main' = [main EXCEPT !.pc = "returned"]
    /\ UNCHANGED <<doc, source, excludes, call, latest, docs, failure, tasks, ctx, limiter>>
    /\ UNCHANGED cmpVars

AllNext == RangeArgs \/ (\E t \in AllTasks : RunOperation(t)) \/ WaitAll

SpecAll == AllInit /\ [][AllNext]_vars

\* The function and every task it started take their steps: a goroutine
\* that can run does run.
SpecAllFair == SpecAll /\ WF_vars(AllNext)

\* The operations have all run on the i-th argument.
RanOnRoot(i) == \A p \in 1..Len(Operations) : tasks[<<i, p>>].pc = "done"

\* C27: every update operation eventually runs on every argument that is
\* not blank.
C27_EveryRootProcessed ==
    <>(\A i \in DOMAIN doc.roots : doc.roots[i] \notin {Empty, <<" ">>} => RanOnRoot(i))

-----------------------------------------------------------------------------
(* The GitHub client as goroutines: several tasks call                     *)
(* Client.FindLatestActionTag on one client, whose limiter is a token      *)
(* bucket that starts full and gets a token back as time passes.  Wait     *)
(* takes a token or blocks until there is one, and returns the error of    *)
(* the context when the context is canceled at the call or before a token  *)
(* has come.  main keeps which tasks blocked, which got a token and how    *)
(* many tokens time has given back.                                        *)

\* Tasks that call the client.
MaxCallers == 3

\* Burst of the limiter of an unauthenticated client.
Burst == 1

LimiterInit ==
    /\ CompareIdle
    /\ doc = [kind |-> "client"]
    /\ source \in SeqsUpTo(CandidateTags, 1)
    /\ excludes = {}
    /\ call = NoCall
    /\ latest = NotResolved
    /\ docs = <<doc>>
    /\ failure = "NotRun"
    /\ tasks = [c \in 1..MaxCallers |-> Task("start", "none")]
    /\ main = [pc |-> "calls", blocked |-> {}, granted |-> {}, refills |-> 0]
    /\ ctx = "live"
    /\ limiter = Burst

\* gc.l.Wait(ctx) that returns nil at once when the bucket is empty.
WaitWithoutToken(c) ==
    /\ tasks[c].pc = "start"
    /\ IF ctx = "canceled"
       THEN tasks' = [tasks EXCEPT ![c] = Task("done", "limiter error")]
            /\ UNCHANGED <<main, limiter>>
       ELSE /\ tasks' = [tasks EXCEPT ![c] = Task("listing", "none")]
            /\ limiter' = IF limiter > 0 THEN limiter - 1 ELSE limiter
            /\ main' = IF limiter > 0 THEN [main EXCEPT !.granted = @ \cup {c}] ELSE main
    /\ UNCHANGED <<doc, source, excludes, call, latest, docs, failure, ctx>>
    /\ UNCHANGED cmpVars

\* FindLatestActionTag calls gc.l.Wait(ctx): with a canceled context Wait
\* returns its error and the function returns it; with a token in the
\* bucket Wait takes it and returns nil; with none the task blocks.
Wait(c) ==
    /\ tasks[c].pc = "start"
    /\ IF ctx = "canceled"
       THEN tasks' = [tasks EXCEPT ![c] = Task("done", "limiter error")]
            /\ UNCHANGED <<main, limiter>>
       ELSE IF limiter > 0
       THEN /\ tasks' = [tasks EXCEPT ![c] = Task("listing", "none")]
            /\ limiter' = limiter - 1
            /\ main' = [main EXCEPT !.granted = @ \cup {c}]
       ELSE /\ tasks' = [tasks EXCEPT ![c] = Task("waiting", "none")]
            /\ main' = [main EXCEPT !.blocked = @ \cup {c}]
            /\ UNCHANGED limiter
    /\ UNCHANGED <<doc, source, excludes, call, latest, docs, failure, ctx>>
    /\ UNCHANGED cmpVars

\* A blocked Wait returns: the error of the context once it is canceled,
\* and the function returns it without listing; nil with the token that has
\* come.
WaitReturns(c) ==
    /\ tasks[c].pc = "waiting"
    /\ IF ctx = "canceled"
       THEN tasks' = [tasks EXCEPT ![c] = Task("done", "limiter error")]
            /\ UNCHANGED <<main, limiter>>
       ELSE /\ limiter > 0
            /\ tasks' = [tasks EXCEPT ![c] = Task("listing", "none")]
            /\ limiter' = limiter - 1
            /\ main' = [main EXCEPT !.granted = @ \cup {c}]
    /\ UNCHANGED <<doc, source, excludes, call, latest, docs, failure, ctx>>
    /\ UNCHANGED cmpVars

\* Time gives a token back to a bucket that is not full.
Refill ==
    /\ limiter < Burst
    /\ limiter' = limiter + 1
    /\ main' = [main EXCEPT !.refills = @ + 1]
    /\ UNCHANGED <<doc, source, excludes, call, latest, docs, failure, tasks, ctx>>
    /\ UNCHANGED cmpVars

\* gc.c.Repositories.ListTags returns and the function returns: the error
\* of the listing, or the tag its loop selects for an action at v2.
ListTags(c) ==
    /\ tasks[c].pc = "listing"
    /\ \E out \in {"list error", FindLatestActionTag(V2, source, excludes, NoOptions).tag} :
           tasks' = [tasks EXCEPT ![c] = Task("done", out)]
    /\ UNCHANGED <<doc, source, excludes, call, latest, docs, failure, main, ctx, limiter>>
    /\ UNCHANGED cmpVars

LimiterNext ==
    \/ \E c \in 1..MaxCallers : Wait(c) \/ WaitReturns(c) \/ ListTags(c)
    \/ Refill
    \/ Cancel

SpecLimiter == LimiterInit /\ [][LimiterNext]_vars

\* The tasks that have listed the tags or are listing them.
Listed == {c \in 1..MaxCallers : tasks[c].pc = "listing"
                                  \/ (tasks[c].pc = "done" /\ tasks[c].out # "limiter error")}

\* C29: a task lists the tags of an action only after it has taken a token
\* of the limiter the tasks of the client share, one token for each
\* listing out of those the bucket started with and time gave back; and a
\* task that is blocked in Wait when the context is canceled does nothing
\* but return the error, without listing.
C29_ListingNeedsToken ==
    /\ [](/\ Listed \subseteq main.granted
          /\ Cardinality(main.granted) + limiter = Burst + main.refills)
    /\ [][\A c \in 1..MaxCallers :
              (tasks[c].pc = "waiting" /\ ctx = "canceled")
                  => tasks'[c] \in {tasks[c], Task("done", "limiter error")}]_vars

\* A task that blocked has returned the limiter's error under a canceled
\* context without listing, after another task took the token and listed.
C29_Witness ==
    /\ ctx = "canceled"
    /\ \E c \in main.blocked : tasks[c] = Task("done", "limiter error") /\ c \notin Listed
    /\ \E c \in main.granted : tasks[c].pc = "done" /\ c \in Listed

-----------------------------------------------------------------------------
(* The frame of one invocation of a filter on an entry.                    *)

\* The entry after the invocation is the entry before it but for its
\* version-bearing field.
Framed(before, after) ==
    CASE before.kind = "step" -> after = [before EXCEPT !.uses = after.uses]
      [] before.kind = "chart" -> after = [before EXCEPT !.version = after.version]
      [] before.kind = "image" -> after = [before EXCEPT !.newTag = after.newTag]

-----------------------------------------------------------------------------
(* The check command: agent.RunCheck and the check-and-fix lifecycle of    *)
(* one directory.  doc is the directory: which function is called on it,   *)
(* and how nix flake check behaves in it, failing doc.fails times before   *)
(* it succeeds, or never succeeding.  main is the calling goroutine: the   *)
(* iteration i, the number of runs of nix flake check, the number of fix   *)
(* steps run, whether a fix step failed, lastErr and the error returned.   *)

\* Failures of nix flake check before its first success.
MaxFails == 2

maxIterations == 10

ErrCheck == "exit status 1"

ErrCanceled == "context canceled"

\* An error value and the call of RunCheck that returned it.
CheckErr(err, i) == [err |-> err, call |-> i]

NilErr == CheckErr(NoError, 0)

NotReturned == CheckErr("NotReturned", 0)

\* runNixFlakeCheck, run for the n-th time: the command is killed when the
\* context is canceled.
runNixFlakeCheck(n) ==
    IF doc.never \/ n <= doc.fails \/ ctx = "canceled" THEN ErrCheck ELSE NoError

\* RunCheck when nix flake check has run attempts times: the error it
\* returns and the number of runs after it.
RunCheck(attempts) ==
    IF ctx = "canceled" THEN [err |-> ErrCanceled, attempts |-> attempts]
    ELSE [err |-> runNixFlakeCheck(attempts + 1), attempts |-> attempts + 1]

CheckInit ==
    /\ CompareIdle
    /\ doc \in [kind : {"dir"}, entry : {"RunCheck", "runCheckLifecycle"},
                fails : 0..MaxFails, never : BOOLEAN]
    /\ source = Empty
    /\ excludes = {}
    /\ call = NoCall
    /\ latest = NotResolved
    /\ docs = <<doc>>
    /\ failure = "NotRun"
    /\ tasks = <<>>
    /\ main = [pc |-> IF doc.entry = "RunCheck" THEN "RunCheck" ELSE "check",
               i |-> 1, attempts |-> 0, fixes |-> 0, fixFailed |-> FALSE,
               lastErr |-> NilErr, err |-> NotReturned]
    /\ ctx = "live"
    /\ limiter = 0

CheckFrame == UNCHANGED <<doc, source, excludes, call, latest, docs, failure, tasks, ctx, limiter>>

\* RunCheck called on the directory, as the command's tests call it.
CallRunCheck ==
    LET Return(r) ==
            main' = [main EXCEPT !.pc = "returned", !.attempts = r.attempts,
                                 !.err = CheckErr(r.err, 1)]
    IN  /\ main.pc = "RunCheck"
        /\ Return(RunCheck(main.attempts))
        /\ CheckFrame
        /\ UNCHANGED cmpVars

\* runCheckLifecycle: the call of RunCheck of iteration i.
runCheckLifecycleCheck ==
    LET Checked(r) ==
            IF r.err = NoError
            THEN main' = [main EXCEPT !.pc = "returned", !.attempts = r.attempts,
                                      !.err = NilErr]
            ELSE main' = [main EXCEPT !.pc = "flake", !.attempts = r.attempts,
                                      !.lastErr = CheckErr(r.err, main.i)]
    IN  /\ main.pc = "check"
        /\ Checked(RunCheck(main.attempts))
        /\ CheckFrame
        /\ UNCHANGED cmpVars

\* A fix step that returns its error to the caller of the lifecycle.
FixStepStopping(pc, next) ==
    /\ main.pc = pc
    /\ \E ok \in BOOLEAN :
           main' = IF ok
                   THEN [main EXCEPT !.pc = next, !.fixes = @ + 1]
                   ELSE [main EXCEPT !.pc = "returned", !.fixes = @ + 1,
                                     !.fixFailed = TRUE,
                                     !.err = CheckErr("fix failed", main.i)]
    /\ CheckFrame
    /\ UNCHANGED cmpVars

\* runCheckLifecycle: a fix step, whose error is logged.
FixStep(pc, next) ==
    /\ main.pc = pc
    /\ \E ok \in BOOLEAN :
           main' = [main EXCEPT !.pc = next, !.fixes = @ + 1,
                                !.fixFailed = @ \/ ~ok]
    /\ CheckFrame
    /\ UNCHANGED cmpVars

runUpdateFlake == FixStep("flake", "script")

runUpdateScript == FixStep("script", "sops")

runUpdateSops == FixStep("sops", "next")

\* runCheckLifecycle: i++ and the test of the loop, and the return after it.
runCheckLifecycleNext ==
    /\ main.pc = "next"
    /\ main' = IF main.i + 1 <= maxIterations
               THEN [main EXCEPT !.pc = "check", !.i = @ + 1]
               ELSE [main EXCEPT !.pc = "returned", !.i = @ + 1, !.err = main.lastErr]
    /\ CheckFrame
    /\ UNCHANGED cmpVars

CheckNext ==
    \/ CallRunCheck
    \/ runCheckLifecycleCheck
    \/ runUpdateFlake
    \/ runUpdateScript
    \/ runUpdateSops
    \/ runCheckLifecycleNext
    \/ Cancel

SpecCheck == CheckInit /\ [][CheckNext]_vars

\* The goroutine is scheduled until it returns; nothing forces a
\* cancellation.
SpecCheckFair ==
    SpecCheck /\ WF_vars(CallRunCheck \/ runCheckLifecycleCheck \/ runUpdateFlake
                           \/ runUpdateScript \/ runUpdateSops \/ runCheckLifecycleNext)

\* C31: when RunCheck has returned and the context is not canceled, a check
\* that fails doc.fails times and then succeeds has been run doc.fails + 1
\* times and RunCheck has returned nil; a check that never succeeds makes
\* RunCheck return an error.
C31_RunCheckRetries ==
    (doc.entry = "RunCheck" /\ main.pc = "returned") =>
        /\ (~doc.never /\ ctx = "live") =>
               main.err.err = NoError /\ main.attempts = doc.fails + 1
        /\ doc.never => main.err.err # NoError

\* What the lifecycle has done by the time it is in a given place: every
\* failed check so far was followed by the three fix steps, and no check
\* ran after a successful one.
LifecycleShape ==
    /\ main.attempts <= maxIterations
    /\ main.attempts <= main.i
    /\ main.pc = "check" => main.fixes = 3 * (main.i - 1)
    /\ main.pc = "returned" =>
           IF main.err = NilErr
           THEN /\ main.i <= maxIterations
                /\ main.fixes = 3 * (main.i - 1)
                /\ main.lastErr.call = main.i - 1
           ELSE /\ main.i = maxIterations + 1
                /\ main.fixes = 3 * maxIterations
                /\ main.err = main.lastErr
                /\ main.err.call = maxIterations
                /\ main.err.err \in {ErrCheck, ErrCanceled}

\* C39: the lifecycle of one directory returns, after at most maxIterations
\* runs of the check: nil at the first check that succeeds, with no fix
\* step after it; otherwise, after the three fix steps that follow each
\* failed check, whether they fail or not, the error of the last check.
C39_LifecycleTerminates ==
    /\ [](doc.entry = "runCheckLifecycle" => LifecycleShape)
    /\ <>(main.pc = "returned")

\* The lifecycle has returned the error of its last check after a fix step
\* failed on the way.
C39_Witness ==
    /\ doc.entry = "runCheckLifecycle"
    /\ main.pc = "returned"
    /\ main.fixFailed
    /\ main.err.call = maxIterations
    /\ main.fixes = 3 * maxIterations

-----------------------------------------------------------------------------
(* RecommandedLabelsSetter.Filter called on a document, with the name and  *)
(* version the setter was made with.                                       *)

\* The elements of a labels list, and one whose pairs have neither label
\* (other: x).
SetterElements ==
    LabelElements \cup {[pairs |-> [kind |-> "mapping", name |-> NoField, version |-> NoField]]}

\* RecommandedLabelsSetter{name, version}.Filter: no labels, no element and
\* no error; labels that are not a sequence, an error.
RecommandedLabelsSetterFilter(node, name, version) ==
    IF node.labels.kind = "missing"
    THEN Ran(node, NoError, [kind |-> "setter"], NotResolved)
    ELSE IF node.labels.kind # "sequence"
    THEN Ran(node, ErrLabels, [kind |-> "setter"], NotResolved)
    ELSE Ran(SetRecommandedLabels(node, name, version), NoError,
             [kind |-> "setter", name |-> name, version |-> version], NotResolved)

SetterInit ==
    /\ CompareIdle
    /\ \E ls \in {[kind |-> "sequence", content |-> c] : c \in SeqsUpTo(SetterElements, 2)}
                     \cup {[kind |-> "missing"], [kind |-> "mapping"]} :
        doc = [kind |-> "labelled", labels |-> ls]
    /\ source = Empty
    /\ excludes = {}
    /\ call = NoCall
    /\ latest = NotResolved
    /\ docs = <<doc>>
    /\ failure = "NotRun"
    /\ GroupIdle

RunSetter ==
    /\ doc.kind = "labelled"
    /\ Len(docs) <= MaxRuns
    /\ \E name \in {<<"myapp">>, <<"app">>}, version \in {V1, <<"old">>} :
           Finish(RecommandedLabelsSetterFilter(doc, name, version))

SpecSetter == SetterInit /\ [][RunSetter]_vars

\* The setter has run on a labels list.
SetterRan == RanOn("labelled") /\ call.kind = "setter" /\ failure = NoError
               /\ doc.labels.kind = "sequence"

\* C32 as the specification has it: after the setter has run, every
\* element of the labels list has the name and the version of the setter
\* in its pairs.
C32_EveryElementLabelled ==
    SetterRan =>
        \A l \in DOMAIN doc.labels.content :
            /\ doc.labels.content[l].pairs.kind = "mapping"
            /\ doc.labels.content[l].pairs.name = call.name
            /\ doc.labels.content[l].pairs.version = call.version

\* C32: after the setter has run, every element of the labels list that
\* has pairs has the name and the version of the setter in them, whether
\* the labels were there before or not, and an element with no pairs is as
\* it was.
C32_EveryPairsLabelled ==
    SetterRan =>
        /\ DOMAIN doc.labels.content = DOMAIN Before.labels.content
        /\ \A l \in DOMAIN doc.labels.content :
               IF Before.labels.content[l].pairs.kind = "mapping"
               THEN doc.labels.content[l].pairs =
                        [kind |-> "mapping", name |-> call.name, version |-> call.version]
               ELSE doc.labels.content[l] = Before.labels.content[l]

\* The setter has run on a list with an element whose pairs had neither
\* label and an element with no pairs.
C32_Witness ==
    /\ SetterRan
    /\ \E l \in DOMAIN Before.labels.content :
           /\ Before.labels.content[l].pairs.kind = "mapping"
           /\ Before.labels.content[l].pairs.name = NoField
           /\ Before.labels.content[l].pairs.version = NoField
           /\ doc.labels.content[l].pairs.name = call.name
    /\ \E l \in DOMAIN Before.labels.content :
           Before.labels.content[l].pairs.kind = "missing"

-----------------------------------------------------------------------------
(* Claims about the resolvers, the pipelines and the updaters as a whole.  *)

\* C33: a version a resolver returns is, by Compare under the options of
\* the call, equal to or greater than the current version of the entry.
C33_NeverOlder ==
    (Resolved /\ Selected) =>
        Compare(call.cur, latest.tag, call.opts)
            \in {Result(Equal, NoError), Result(Greater, NoError)}

-----------------------------------------------------------------------------
(* The kustomization pipeline: the image filter, then the label filter, on *)
(* one kustomization, whose file is written when both returned no error.   *)

\* UpdateKustomizationsImages on a kustomization: every images entry the
\* annotation names goes through the image filter, in order, under the
\* tag-regex of its annotation entry; the first error returns.
UpdateKustomizationsImages(node, tags, excl) ==
    LET Configured(name) ==
            {i \in DOMAIN node.annotation : node.annotation[i].name = name}
        Cfg(name) == node.annotation[Last(Configured(name))]
        Entry(img) ==
            [kind |-> "image", name |-> img.name, newName |-> img.newName,
             newTag |-> img.newTag, tagRegex |-> Cfg(img.name).tagRegex]
        RECURSIVE Loop(_, _, _)
        Loop(n, i, last) ==
            IF i > Len(n.images) THEN Ran(n, NoError, last.call, last.latest)
            ELSE IF Configured(n.images[i].name) = {} THEN Loop(n, i + 1, last)
            ELSE LET Of(r) ==
                         IF r.err # NoError THEN Ran(n, r.err, r.call, r.latest)
                         ELSE Loop([n EXCEPT !.images[i].newTag = r.doc.newTag], i + 1, r)
                 IN  Of(UpdateKustomizationImages(Entry(n.images[i]), tags, excl))
    IN  Loop(node, 1, Ran(node, NoError, NoCall, NotResolved))

\* The pipeline with the label filter before the image filter.
UpdateKustomizationLabelsFirst(node, tags, excl) ==
    LET Images(l) ==
            IF l.err # NoError THEN Ran(node, l.err, l.call, l.latest)
            ELSE LET Of(r) == IF r.err # NoError THEN Ran(node, r.err, r.call, r.latest) ELSE r
                 IN  Of(UpdateKustomizationsImages(l.doc, tags, excl))
    IN  Images(UpdateKustomizationLabelsNode(node))

\* UpdateKustomization(ctx, path).Execute() on the kustomization of the
\* directory: the filters in their order, and the file as it was when one
\* of them returned an error.
UpdateKustomization(node, tags, excl) ==
    LET Labels(r) ==
            IF r.err # NoError THEN Ran(node, r.err, r.call, r.latest)
            ELSE LET Of(l) ==
                         IF l.err # NoError THEN Ran(node, l.err, r.call, r.latest)
                         ELSE Ran(l.doc, NoError, r.call, r.latest)
                 IN  Of(UpdateKustomizationLabelsNode(r.doc))
    IN  Labels(UpdateKustomizationsImages(node, tags, excl))

\* What the registry may enumerate for the managed image.
KustomizeTags == {<<"release-", "1", ".", "0", ".", "2">>, <<"v", "1", ".", "2">>, <<"dev">>}

KustomizeInit ==
    /\ CompareIdle
    /\ \E re \in {NoRule, ReleaseRule, VersionRule},
          tag \in {<<"release-", "1", ".", "0", ".", "1">>, <<"v", "1", ".", "1">>, Empty},
          ls \in {[kind |-> "sequence", content |-> c] : c \in SeqsUpTo(LabelElements, 2)}
                     \cup {[kind |-> "missing"]},
          an \in BOOLEAN :
        doc = [kind |-> "kustomize",
               annotation |-> IF an THEN <<[name |-> <<"app">>, tagRegex |-> re]>> ELSE Empty,
               labels |-> ls,
               images |-> <<[name |-> <<"app">>, newName |-> <<"repo/app">>, newTag |-> tag],
                            [name |-> <<"web">>, newName |-> <<"repo/web">>, newTag |-> V1]>>]
    /\ source \in SeqsUpTo(KustomizeTags, MaxTags)
    /\ excludes = {}
    /\ call = NoCall
    /\ latest = NotResolved
    /\ docs = <<doc>>
    /\ failure = "NotRun"
    /\ GroupIdle

RunKustomization ==
    /\ doc.kind = "kustomize"
    /\ Len(docs) <= MaxRuns
    /\ Finish(UpdateKustomization(doc, source, excludes))

SpecKustomize == KustomizeInit /\ [][RunKustomization]_vars

\* The pipeline has run without error on a kustomization whose annotation
\* gives the image app a tag-regex, whose labels list has an element that
\* names app, and the image has a newTag at the end.
LabelledRun ==
    /\ RanOn("kustomize")
    /\ failure = NoError
    /\ Before.annotation # Empty
    /\ Before.annotation[1].tagRegex # NoRule
    /\ Before.labels.kind = "sequence"
    /\ \E l \in DOMAIN Before.labels.content :
           /\ Before.labels.content[l].pairs.kind = "mapping"
           /\ Before.labels.content[l].pairs.name = Before.images[1].name
    /\ doc.images[1].newTag # Empty

-----------------------------------------------------------------------------
(* The files of the pipelines that update-all starts.  doc is the          *)
(* arguments and the layout of the tree: the files there are, each under   *)
(* the root it is in, at the top of the root or in its .github/workflows   *)
(* directory.  A pipeline task reads the files its reader matches, keeps   *)
(* them while its filters run, and writes them back.                       *)

\* Files of a layout.
MaxLayout == 2

\* The files a directory tree may hold.
TreeFiles ==
    [root : {<<"a">>, <<"b">>}, dir : {"top", "workflows"},
     name : {<<"kustomization", ".yaml">>, <<"cluster", ".yaml">>, <<"ci", ".yml">>}]

\* filepath.Match of the base name of a file against the globs.
MatchFilesGlob(globs, name) ==
    \E g \in globs : IF g[1] = "*" THEN name[2] = g[2] ELSE name = g

\* LocalPackageReader{PackagePath, MatchFilesGlob}: the files of the layout
\* under the package path, at any depth, whose base name matches.
LocalPackageReader(op, root, layout) ==
    CASE op = "kustomization" ->
            {f \in layout : f.root = root
                            /\ MatchFilesGlob({<<"kustomization", ".yaml">>}, f.name)}
      [] op = "k0sctl" ->
            {f \in layout : f.root = root /\ MatchFilesGlob({<<"cluster", ".yaml">>}, f.name)}
      [] op = "workflows" ->
            {f \in layout : f.root = root /\ f.dir = "workflows"
                            /\ MatchFilesGlob({<<"*", ".yml">>, <<"*", ".yaml">>}, f.name)}
      [] OTHER -> {}

FilesInit ==
    /\ CompareIdle
    /\ doc \in {[kind |-> "tree", roots |-> rs, layout |-> fs] :
                   rs \in SeqsUpTo({<<" ">>, <<"a">>, <<"b">>}, MaxRoots) \ {Empty},
                   fs \in {s \in SUBSET TreeFiles : Cardinality(s) <= MaxLayout}}
    /\ source = Empty
    /\ excludes = {}
    /\ call = NoCall
    /\ latest = NotResolved
    /\ docs = <<doc>>
    /\ failure = "NotRun"
    /\ tasks = [t \in AllTasks |-> Task("none", "none")]
    /\ main = [pc |-> "loop", i |-> 1, err |-> Empty]
    /\ ctx = "live"
    /\ limiter = 0

IsPipeline(t) == Operations[t[2]] \in {"kustomization", "k0sctl", "workflows"}

\* Pipeline.Execute: the reader reads the files of the pipeline.
ReadFiles(t) ==
    /\ IsPipeline(t)
    /\ tasks[t].pc = "start"
    /\ tasks' = [tasks EXCEPT ![t] =
                    Task("read", LocalPackageReader(Operations[t[2]], doc.roots[t[1]], doc.layout))]
    /\ UNCHANGED <<doc, source, excludes, call, latest, docs, failure, main, ctx, limiter>>
    /\ UNCHANGED cmpVars

\* Pipeline.Execute: the filters have run and the writer writes the files
\* that were read.
WriteFiles(t) ==
    /\ IsPipeline(t)
    /\ tasks[t].pc = "read"
    /\ tasks' = [tasks EXCEPT ![t].pc = "done"]
    /\ UNCHANGED <<doc, source, excludes, call, latest, docs, failure, main, ctx, limiter>>
    /\ UNCHANGED cmpVars

\* runUpdateSops and runUpdateScript on the root.
RunCommand(t) == ~IsPipeline(t) /\ RunOperation(t)

FilesNext ==
    \/ RangeArgs
    \/ \E t \in AllTasks : ReadFiles(t) \/ WriteFiles(t) \/ RunCommand(t)
    \/ WaitAll

SpecFiles == FilesInit /\ [][FilesNext]_vars

\* The files a pipeline task has read and not yet written back.
Held(t) == IF IsPipeline(t) /\ tasks[t].pc = "read" THEN tasks[t].out ELSE {}

\* C35: no file is held by two pipeline tasks at once.
C35_FilesDisjoint ==
    \A p, q \in AllTasks : p # q => Held(p) \cap Held(q) = {}

\* The candidates of the last call that are not excluded.
NotExcluded == {i \in Enumerated : ~Excluded(i)}

\* C36: a chart entry with an empty version is resolved against "latest":
\* the resolver returns, with no error, the last candidate that is not
\* excluded, a version or not, which becomes the version of the entry; when
\* every candidate is excluded or there is none the entry stays as it was.
C36_EmptyVersionTakesLast ==
    (RanOn("chart") /\ Before.version = Empty /\ Resolved) =>
        /\ call.cur = <<"latest">>
        /\ failure = NoError
        /\ IF NotExcluded = {}
           THEN latest = Found(Empty, NoError) /\ doc = Before
           ELSE /\ latest = Found(call.tags[Last(NotExcluded)], NoError)
                /\ doc = [Before EXCEPT !.version = call.tags[Last(NotExcluded)]]

\* A chart with no version has got the tag dev, the last the source
\* enumerated, after a version.
C36_Witness ==
    /\ RanOn("chart")
    /\ Before.version = Empty
    /\ call.tags = <<V2, <<"dev">>>>
    /\ call.excludes = {}
    /\ doc.version = <<"dev">>

-----------------------------------------------------------------------------
(* The image filter that parses the current tag before it resolves:        *)
(* updateKustomizationImagesNode on one images entry that the annotation   *)
(* names, the entry carrying the tag-regex of its annotation entry.        *)

\* runtime error: invalid memory address or nil pointer dereference.
Panic == "panic"

\* updateKustomizationImagesNode on a managed entry: the current tag, when
\* there is one, goes through utils.ParseSemverWithRegex with the tag-regex
\* of the annotation, which is nil when the annotation has none, and
\* FindStringSubmatch on a nil *regexp.Regexp panics; the version parsed is
\* the tag of the reference resolved; a resolver error leaves the current
\* tag.
updateKustomizationImagesNode(image, tags, excl) ==
    LET Options ==
            [updateStrategy |-> "FullUpdate", includePreRelease |-> FALSE,
             exclude |-> excl, transformRegex |-> image.tagRegex]
        Set(c, l) ==
            IF l.err # NoError THEN Ran(image, NoError, c, l)
            ELSE IF l.tag = Empty THEN Ran(image, NoError, c, l)
            ELSE Ran([image EXCEPT !.newTag = l.tag], NoError, c, l)
        Resolve(tag) ==
            Set([kind |-> "registry", cur |-> tag, tags |-> tags, excludes |-> excl],
                RegistryFindLatestTag(tag, tags, Options))
        Of(sem) ==
            IF ~sem.ok THEN Ran(image, ErrNoMatch, NoCall, NotResolved) ELSE Resolve(sem.v)
    IN  IF image.newTag = Empty THEN Resolve(Empty)
        ELSE IF image.tagRegex = NoRule THEN Ran(image, Panic, NoCall, NotResolved)
        ELSE Of(ParseSemverWithRegex(image.tagRegex, image.newTag))

ImagesNodeInit ==
    /\ CompareIdle
    /\ doc \in [kind : {"managed"}, name : {<<"app">>}, newName : {<<"repo/app">>},
                newTag : {<<"v", "1", ".", "0", ".", "0">>, <<"1", ".", "0", ".", "1">>,
                          <<"dev">>, Empty},
                tagRegex : {NoRule, VersionRule}]
    /\ source \in SeqsUpTo({<<"v", "1", ".", "0", ".", "0">>, <<"v", "1", ".", "0", ".", "1">>,
                            <<"v", "2", ".", "0", ".", "0">>, <<"dev">>}, MaxTags)
    /\ excludes \in {{}, {<<"v", "2", ".", "0", ".", "0">>}}
    /\ call = NoCall
    /\ latest = NotResolved
    /\ docs = <<doc>>
    /\ failure = "NotRun"
    /\ GroupIdle

RunImagesNode ==
    /\ doc.kind = "managed"
    /\ Len(docs) <= MaxRuns
    /\ Finish(updateKustomizationImagesNode(doc, source, excludes))

SpecImagesNode == ImagesNodeInit /\ [][RunImagesNode]_vars

\* C37: on a managed image whose annotation entry has no tag-regex the
\* image filter returns no error and does not panic, and when the image
\* has a tag it resolves the reference with that tag as its version.
C37_NoRegexCompletes ==
    (RanOn("managed") /\ Before.tagRegex = NoRule) =>
        /\ failure = NoError
        /\ Before.newTag # Empty => Resolved

-----------------------------------------------------------------------------
(* The Updaters of packages helm, github and container: an Updater keeps   *)
(* the options it was constructed with, and Update builds from them and    *)
(* from its own options the options of the resolver call.  An option is    *)
(* the field it assigns and the value it assigns to it.                    *)

\* Longest option list of a construction.
MaxOpts == 2

Option(field, value) == [field |-> field, value |-> value]

\* makeOptions(opts...): the options are applied in order to the zero
\* options struct.
RECURSIVE makeOptions(_)
makeOptions(os) ==
    IF os = Empty THEN NoOptions
    ELSE LET Apply(o, opt) ==
                 IF opt.field = "transformRegex" THEN [o EXCEPT !.transformRegex = opt.value]
                 ELSE [o EXCEPT !.policy = opt.value]
         IN  Apply(makeOptions(SubSeq(os, 1, Len(os) - 1)), os[Len(os)])

WithExcludes(excl) == Option("excludes", excl)

WithUpdateOptions(os) == Option("updateOptions", os)

\* makeFindLatestOptions(opts...): the options are applied in order to a
\* struct with an empty exclusion set and no update options.
RECURSIVE makeFindLatestOptions(_)
makeFindLatestOptions(os) ==
    IF os = Empty THEN [excludes |-> {}, updateOptions |-> Empty]
    ELSE LET Apply(o, opt) ==
                 IF opt.field = "excludes" THEN [o EXCEPT !.excludes = opt.value]
                 ELSE [o EXCEPT !.updateOptions = opt.value]
         IN  Apply(makeFindLatestOptions(SubSeq(os, 1, Len(os) - 1)), os[Len(os)])

\* The call an Updater makes and what it returns.
Updated(kind, cur, tags, o, given, l) ==
    [call |-> [kind |-> kind, cur |-> cur, tags |-> tags, excludes |-> o.excludes,
               opts |-> makeOptions(o.updateOptions), given |-> given],
     latest |-> l]

\* helm.Updater.Update adding its options to the update options of the
\* construction.
HelmUpdaterUpdateMerging(built, chart, vers, given) ==
    LET Of(o) ==
            Updated("chart", chart, vers, o, given,
                    FindLatestVersion(chart, vers, o.excludes, makeOptions(o.updateOptions)))
        Merged(b) == [b EXCEPT !.updateOptions = @ \o given]
    IN  Of(Merged(makeFindLatestOptions(built)))

\* helm.Updater{opts: built}.Update(ctx, chart, given...) when ListVersions
\* returns vers.
HelmUpdaterUpdate(built, chart, vers, given) ==
    LET Of(o) ==
            Updated("chart", chart, vers, o, given,
                    FindLatestVersion(chart, vers, o.excludes, makeOptions(o.updateOptions)))
    IN  Of(makeFindLatestOptions(Append(built, WithUpdateOptions(given))))

\* github.Updater{opts: built}.Update(ctx, action, given...) when the
\* repository has tags.
GitHubUpdaterUpdate(built, action, tags, given) ==
    LET Of(o) ==
            Updated("action", action, tags, o, given,
                    FindLatestActionTag(action, tags, o.excludes, makeOptions(o.updateOptions)))
    IN  Of(makeFindLatestOptions(Append(built, WithUpdateOptions(given))))

\* container.Updater{opts: built}.Update(ctx, imageRef, given...) when the
\* registry has tags.
ContainerUpdaterUpdate(built, imageTag, tags, given) ==
    LET Of(o) ==
            Updated("image", imageTag, tags, o, given,
                    FindLatestTag(imageTag, tags, o.excludes, makeOptions(o.updateOptions)))
    IN  Of(makeFindLatestOptions(<<WithUpdateOptions(built \o given)>>))

\* The comparison options a caller may give.
UpdateOptions ==
    {Option("transformRegex", VersionRule), Option("policy", MajorRelease),
     Option("policy", MinorRelease)}

\* The options a chart or action Updater may be constructed with.
FindLatestOptions ==
    {WithExcludes({V2}), WithUpdateOptions(<<Option("transformRegex", VersionRule)>>),
     WithUpdateOptions(<<Option("policy", MajorRelease)>>)}

UpdatersInit ==
    /\ CompareIdle
    /\ doc \in {[kind |-> k, built |-> b, version |-> V1] :
                   k \in {"helm", "github"}, b \in SeqsUpTo(FindLatestOptions, MaxOpts)}
               \cup {[kind |-> "container", built |-> b, version |-> V1] :
                        b \in SeqsUpTo(UpdateOptions, MaxOpts)}
    /\ source \in SeqsUpTo(CandidateTags, MaxTags)
    /\ excludes = {}
    /\ call = NoCall
    /\ latest = NotResolved
    /\ docs = <<doc>>
    /\ failure = "NotRun"
    /\ GroupIdle

\* Update returns.
UpdateReturned(r) ==
    /\ call = NoCall
    /\ call' = r.call
    /\ latest' = r.latest
    /\ UNCHANGED <<doc, source, excludes, docs, failure>>
    /\ UNCHANGED cmpVars
    /\ UNCHANGED grpVars

CallHelmUpdate ==
    /\ doc.kind = "helm"
    /\ \E given \in SeqsUpTo(UpdateOptions, 1) :
           UpdateReturned(HelmUpdaterUpdate(doc.built, doc.version, source, given))

CallGitHubUpdate ==
    /\ doc.kind = "github"
    /\ \E given \in SeqsUpTo(UpdateOptions, 1) :
           UpdateReturned(GitHubUpdaterUpdate(doc.built, doc.version, source, given))

CallContainerUpdate ==
    /\ doc.kind = "container"
    /\ \E given \in SeqsUpTo(UpdateOptions, 1) :
           UpdateReturned(ContainerUpdaterUpdate(doc.built, doc.version, source, given))

UpdatersNext == CallHelmUpdate \/ CallGitHubUpdate \/ CallContainerUpdate

SpecUpdaters == UpdatersInit /\ [][UpdatersNext]_vars

\* The value the last option of the list on the field assigns, or none.
LastAssigned(os, field, none) ==
    LET At == {i \in DOMAIN os : os[i].field = field}
    IN  IF At = {} THEN none ELSE os[Last(At)].value

\* The comparison options that a list of options leaves.
Leaves(os) ==
    [transformRegex |-> LastAssigned(os, "transformRegex", NoRule),
     policy |-> LastAssigned(os, "policy", NoPolicy)]

\* C38: the resolver call of a chart or action Updater compares under the
\* options Update was given and no other, whatever update options the
\* Updater was constructed with, and excludes what the construction
\* excludes; the call of an image Updater compares under the options of
\* the construction followed by those Update was given.
C38_PerCallOptionsReplace ==
    call # NoCall =>
        IF doc.kind \in {"helm", "github"}
        THEN /\ call.opts = Leaves(call.given)
             /\ call.excludes = LastAssigned(doc.built, "excludes", {})
        ELSE call.opts = Leaves(doc.built \o call.given)

\* A chart Updater constructed with an extraction rule and an exclusion set
\* has been called with no option: the call has the exclusion set and no
\* rule.
C38_Witness ==
    /\ doc.kind = "helm"
    /\ doc.built = <<WithExcludes({V2}), WithUpdateOptions(<<Option("transformRegex", VersionRule)>>)>>
    /\ call # NoCall
    /\ call.given = Empty
    /\ call.opts = NoOptions
    /\ call.excludes = {V2}

====
